---- MODULE Spec2Model ----
(***************************************************************************)
(* A model of the papyrus layout engine (package layout, builder.go).      *)
(*                                                                         *)
(* Lengths are fixed-point integers: one unit is 1e-6 mm, so that the      *)
(* point factor 0.352777 and the default font size 12 * 0.352777 of the    *)
(* source are exact.  Mm(n) is n millimetres.                              *)
(*                                                                         *)
(* The recursive walk processBlock -> handleFlow -> processBlock is        *)
(* unfolded into a stack of flowContext frames: entering a container       *)
(* pushes its child context, leaving it pops the frame and applies the     *)
(* code that follows the recursive call.  The document is not fixed in     *)
(* advance: each step draws the next statement of the block being walked.  *)
(***************************************************************************)
EXTENDS Integers, Sequences, FiniteSets, TLC

VARIABLES
    doc,        \* the parsed document handed to Build (read only)
    phase,      \* position in Build: "start", "resources", "pages", "body", "done"
    todo,       \* resolveStyles: names the range loop has not reached yet
    dfsStack,   \* resolveStyles: the chain of dfs calls in progress
    visiting,   \* resolveStyles: the visiting set
    resolved,   \* resolveStyles: the memo of merged styles
    collector,  \* the pageCollector
    stack,      \* the flowContext frames from the root to the current one
    stmts,      \* statements of the page body consumed so far
    last,       \* what the last handler did (history, for the properties)
    result,     \* Build's *Result, NoResult when nil
    err         \* Build's error, NoErr when nil

vars == <<doc, phase, todo, dfsStack, visiting, resolved, collector, stack,
          stmts, last, result, err>>

\* ------------------------------------------------------------------ bounds

\* Statements of the page body a run may process.
MaxStmts == 3

\* ------------------------------------------------------------ program data

blockSpacing == 3000000
defaultTableRowGap == 0
cellPadding == 1200000

Mm(n) == n * 1000000

Max(a, b) == IF a > b THEN a ELSE b
Min(a, b) == IF a < b THEN a ELSE b

\* Build's *Result: nil, or a Result with its pages.
NoResult == [nil |-> TRUE, Pages |-> <<>>]
ResultOf(pages) == [nil |-> FALSE, Pages |-> pages]
NoErr == "nil"

\* ------------------------------------------------------------- attributes

(* An attribute value is a lexeme.  A numeric lexeme is [num, unit] with    *)
(* unit one of "", "mm", "cm", "in", "pt", "%", "x" (the text after the     *)
(* digits); a word such as center is [word]; the empty string is NoTok.     *)
Tok(n, u) == [kind |-> "num", num |-> n, unit |-> u, word |-> ""]
Word(w) == [kind |-> "word", num |-> 0, unit |-> "", word |-> w]
NoTok == [kind |-> "empty", num |-> 0, unit |-> "", word |-> ""]

\* attrs[key] of a Go map[string]string: the empty string when absent.
Attr(attrs, key) == IF key \in DOMAIN attrs THEN attrs[key] ELSE NoTok

\* The lower-cased text of a lexeme, "" for a number or the empty string.
AttrWord(attrs, key) == Attr(attrs, key).word

\* f overlaid by g: g wins on shared keys (the two copy loops of a merge).
Overlay(f, g) ==
    [k \in DOMAIN f \cup DOMAIN g |-> IF k \in DOMAIN g THEN g[k] ELSE f[k]]

NoAttrs == [k \in {} |-> NoTok]

mergeStyleAttributes(style, inline, styles) ==
    IF style # "" /\ style \in DOMAIN styles
    THEN Overlay(styles[style].Props, inline)
    ELSE Overlay(NoAttrs, inline)

(* parseArgs.  A command's arguments are lexemes; a word is an Ident        *)
(* lexeme and a number a Number lexeme.  With allowStyle a leading Ident is *)
(* the style name, whatever it says; the lexemes after it are taken two by  *)
(* two as key and value, a later pair replacing an earlier one with the     *)
(* same key and a last lexeme without a partner being dropped.              *)
KeyOf(lexeme) ==
    IF lexeme.kind = "word" THEN lexeme.word
    ELSE ToString(lexeme.num) \o lexeme.unit

RECURSIVE ArgPairs(_, _)
ArgPairs(args, cursor) ==
    IF cursor < Len(args)
    THEN Overlay(KeyOf(args[cursor]) :> args[cursor + 1], ArgPairs(args, cursor + 2))
    ELSE NoAttrs

parseArgs(args, allowStyle) ==
    IF allowStyle /\ Len(args) > 0 /\ args[1].kind = "word"
    THEN [style |-> args[1].word, attrs |-> ArgPairs(args, 2)]
    ELSE [style |-> "", attrs |-> ArgPairs(args, 1)]

\* The statement with the style name and attributes parseArgs reads from it.
Parsed(stmt, allowStyle) == parseArgs(stmt.args, allowStyle) @@ stmt

\* ------------------------------------------------------------------ units

(* parseLength: the suffix picks the factor, "%" and no suffix count as     *)
(* millimetres, and a lexeme whose numeric part does not parse (a word, the *)
(* empty string, a factor such as 2x) gives 0.                              *)
parseLength(v) ==
    IF v.kind # "num" THEN 0
    ELSE CASE v.unit = "cm" -> v.num * 10000000
           [] v.unit = "in" -> v.num * 25400000
           [] v.unit = "pt" -> v.num * 352777
           [] v.unit \in {"mm", "", "%"} -> v.num * 1000000
           [] OTHER -> 0

\* reference * f / 100, computed without leaving the 32-bit range.
parseDimension(v, reference) ==
    IF v.kind = "empty" THEN 0
    ELSE IF v.kind = "num" /\ v.unit = "%"
         THEN v.num * (reference \div 100) + (v.num * (reference % 100)) \div 100
         ELSE parseLength(v)

normalizeWrap(w) ==
    CASE w \in {"", "auto", "anywhere", "overflow-wrap:anywhere", "overflow-anywhere"}
           -> "anywhere"
      [] w \in {"break-word", "word-break:break-word"} -> "break-word"
      [] w \in {"nowrap", "no-wrap"} -> "nowrap"
      [] w = "normal" -> "normal"
      [] OTHER -> "anywhere"


\* ------------------------------------------------------------------ colors

\* strconv.ParseInt(s, 16, 64) of two characters, 0 when it fails.
HexDigits == "0" :> 0 @@ "1" :> 1 @@ "a" :> 10 @@ "F" :> 15

mustHex(s) ==
    IF \A i \in 1..Len(s) : s[i] \in DOMAIN HexDigits
    THEN 16 * HexDigits[s[1]] + HexDigits[s[2]]
    ELSE 0

Color(r, g, b) == [R |-> r, G |-> g, B |-> b]

\* strings.TrimPrefix(value, "#").
TrimHash(value) ==
    IF value # <<>> /\ value[1] = "#" THEN Tail(value) ELSE value

\* parseColor: [ok, c]; only the length of the value is looked at.
parseColor(value) ==
    IF Len(TrimHash(value)) = 3
    THEN [ok |-> TRUE,
          c |-> Color(mustHex(<<TrimHash(value)[1], TrimHash(value)[1]>>),
                      mustHex(<<TrimHash(value)[2], TrimHash(value)[2]>>),
                      mustHex(<<TrimHash(value)[3], TrimHash(value)[3]>>))]
    ELSE IF Len(TrimHash(value)) \in {6, 8}
    THEN [ok |-> TRUE,
          c |-> Color(mustHex(SubSeq(TrimHash(value), 1, 2)),
                      mustHex(SubSeq(TrimHash(value), 3, 4)),
                      mustHex(SubSeq(TrimHash(value), 5, 6)))]
    ELSE [ok |-> FALSE, c |-> Color(0, 0, 0)]

\* The color case of collectResources for one statement `color name value`,
\* colors being the map so far.
CollectColor(colors, name, value) ==
    IF name = "" \/ value = <<>> THEN colors
    ELSE IF parseColor(value).ok THEN (name :> parseColor(value).c) @@ colors
    ELSE colors


\* ------------------------------------------------------- unit-safe lengths

\* A Length: a number and the unit it was written with ("" is UnitNone).
Length(value, unit) == [Value |-> value, Unit |-> unit]

\* Millionths of a millimetre in millionths of a point: MmToPt, which is
\* 1 / 0.352777, taken as 2.835.
MmToPt(mm) == (mm \div 1000) * 2835

\* Length.To in millionths of the target unit.
To(l, target) ==
    CASE l.Unit = "mm" -> IF target = "pt" THEN MmToPt(Mm(l.Value)) ELSE Mm(l.Value)
      [] l.Unit = "cm" -> IF target = "pt" THEN MmToPt(Mm(l.Value * 10))
                          ELSE Mm(l.Value * 10)
      [] l.Unit = "in" -> IF target = "pt" THEN MmToPt(l.Value * 25400000)
                          ELSE l.Value * 25400000
      [] l.Unit = "pt" -> IF target = "pt" THEN l.Value * 1000000
                          ELSE l.Value * 352777
      [] OTHER -> l.Value * 1000000

\* The kinds of a LineHeightSpec as iota numbers them; the zero value of
\* the type has the kind LineHeightFactor, the factor 0 and the length 0.
LineHeightFactor == 0
LineHeightAbsolute == 1

\* A LineHeightSpec, its factor in tenths.
LineHeightSpec(kind, tenths, len) == [Kind |-> kind, Tenths |-> tenths, Len |-> len]

\* LineHeightSpec.Resolve.
Resolve(s, fontSize, target) ==
    CASE s.Kind = LineHeightFactor -> (To(fontSize, target) * s.Tenths) \div 10
      [] s.Kind = LineHeightAbsolute -> To(s.Len, target)
      [] OTHER -> (To(fontSize, target) * 14) \div 10


\* ------------------------------------------------------------------- fonts

FontResource(name, src, fallback) == [Name |-> name, Src |-> src, Fallback |-> fallback]

NoFonts == [n \in {} |-> FontResource("", "", "")]

\* The font collectResources makes up for a document without fonts.
DefaultFont ==
    FontResource("Body", "assets/fonts/Noto_Sans_SC/static/NotoSansSC-Regular.ttf",
                 "embed:Inter/static/Inter-Regular.ttf")

\* The font case of collectResources over the font statements from i on: a
\* font without a name is not kept, a later font of a name replaces an
\* earlier one.
RECURSIVE CollectFontsFrom(_, _, _)
CollectFontsFrom(statements, i, fonts) ==
    IF i > Len(statements) THEN fonts
    ELSE CollectFontsFrom(statements, i + 1,
                          IF statements[i].Name # ""
                          THEN (statements[i].Name :> statements[i]) @@ fonts
                          ELSE fonts)

\* A faulty fallback: no font is made up.
WithDefaultFontNever(fonts) == fonts

\* The fallback of collectResources when no font was collected.
WithDefaultFont(fonts) ==
    IF DOMAIN fonts = {} THEN ("Body" :> DefaultFont) ELSE fonts

\* res.Fonts after collectResources.
CollectFonts(statements) == WithDefaultFont(CollectFontsFrom(statements, 1, NoFonts))

\* The font name composeTextBox looks up: the font attribute, else the
\* style name, else Body.
FontNameOf(style, font) ==
    IF font # "" THEN font ELSE IF style # "" THEN style ELSE "Body"

\* resolveFontResource: the outcomes [ok, font] it can give. The last
\* resort ranges over a Go map, whose order is not defined.
resolveFontResource(name, fonts) ==
    IF name \in DOMAIN fonts THEN { [ok |-> TRUE, font |-> fonts[name]] }
    ELSE IF "Body" \in DOMAIN fonts THEN { [ok |-> TRUE, font |-> fonts["Body"]] }
    ELSE IF DOMAIN fonts # {} THEN { [ok |-> TRUE, font |-> fonts[n]] : n \in DOMAIN fonts }
    ELSE { [ok |-> FALSE, font |-> FontResource("", "", "")] }

\* ---------------------------------------------------------- data binding

(* A text is a sequence of tokens: the characters "$", "{", "}", ".", "[",  *)
(* "]", "-" and " " one by one, and runs of other characters as one token.  *)
(* A data value is a map, an array, a string or nil.                        *)
MapV(m) == [t |-> "map", m |-> m, a |-> <<>>, s |-> ""]
ArrV(a) == [t |-> "arr", m |-> <<>>, a |-> a, s |-> ""]
StrV(s) == [t |-> "str", m |-> <<>>, a |-> <<>>, s |-> s]
NilV == [t |-> "nil", m |-> <<>>, a |-> <<>>, s |-> ""]

RECURSIVE Join(_)
Join(tokens) == IF tokens = <<>> THEN "" ELSE tokens[1] \o Join(Tail(tokens))

\* strings.Index: the place of the first tok in tokens, 0 when there is none.
IndexOf(tokens, tok) ==
    IF \E i \in 1..Len(tokens) : tokens[i] = tok
    THEN CHOOSE i \in 1..Len(tokens) :
            tokens[i] = tok /\ \A j \in 1..(i - 1) : tokens[j] # tok
    ELSE 0

RECURSIVE TrimLeft(_)
TrimLeft(tokens) ==
    IF tokens # <<>> /\ tokens[1] = " " THEN TrimLeft(Tail(tokens)) ELSE tokens

RECURSIVE TrimRight(_)
TrimRight(tokens) ==
    IF tokens # <<>> /\ tokens[Len(tokens)] = " "
    THEN TrimRight(SubSeq(tokens, 1, Len(tokens) - 1))
    ELSE tokens

TrimSpace(tokens) == TrimRight(TrimLeft(tokens))

\* strings.Split(path, "."): an empty piece stays in the answer.
RECURSIVE Split(_)
Split(tokens) ==
    IF IndexOf(tokens, ".") = 0 THEN <<tokens>>
    ELSE <<SubSeq(tokens, 1, IndexOf(tokens, ".") - 1)>>
         \o Split(SubSeq(tokens, IndexOf(tokens, ".") + 1, Len(tokens)))

\* strconv.Atoi of decimal digits with an optional sign.
DigitValue == [d \in {"0", "1", "5"} |-> CASE d = "0" -> 0 [] d = "1" -> 1 [] OTHER -> 5]

RECURSIVE Decimal(_)
Decimal(digits) ==
    IF digits = <<>> THEN 0
    ELSE 10 * Decimal(SubSeq(digits, 1, Len(digits) - 1)) + DigitValue[digits[Len(digits)]]

Atoi(tokens) ==
    LET signed == tokens # <<>> /\ tokens[1] = "-"
        digits == IF signed THEN Tail(tokens) ELSE tokens
    IN IF digits # <<>> /\ \A i \in 1..Len(digits) : digits[i] \in DOMAIN DigitValue
       THEN [ok |-> TRUE, n |-> IF signed THEN 0 - Decimal(digits) ELSE Decimal(digits)]
       ELSE [ok |-> FALSE, n |-> 0]

\* The [..] groups parseSegment collects from the first "[" on.
RECURSIVE Brackets(_)
Brackets(rest) ==
    IF rest = <<>> \/ rest[1] # "[" \/ IndexOf(rest, "]") = 0 THEN <<>>
    ELSE <<SubSeq(rest, 2, IndexOf(rest, "]") - 1)>>
         \o Brackets(SubSeq(rest, IndexOf(rest, "]") + 1, Len(rest)))

parseSegment(segment) ==
    IF IndexOf(segment, "[") = 0
    THEN [name |-> Join(segment), indexes |-> <<>>]
    ELSE [name |-> Join(SubSeq(segment, 1, IndexOf(segment, "[") - 1)),
          indexes |-> Brackets(SubSeq(segment, IndexOf(segment, "["), Len(segment)))]

Found(v) == [ok |-> TRUE, val |-> v]
NotFound == [ok |-> FALSE, val |-> NilV]

descendMap(current, key) ==
    IF current.t = "map" /\ key \in DOMAIN current.m THEN Found(current.m[key])
    ELSE NotFound

\* idx counts from 0.
descendArray(current, idx) ==
    IF current.t = "arr" /\ idx >= 0 /\ idx < Len(current.a) THEN Found(current.a[idx + 1])
    ELSE NotFound

RECURSIVE DescendIndexes(_, _)
DescendIndexes(current, indexes) ==
    IF indexes = <<>> THEN Found(current)
    ELSE IF ~Atoi(indexes[1]).ok THEN NotFound
    ELSE IF ~descendArray(current, Atoi(indexes[1]).n).ok THEN NotFound
    ELSE DescendIndexes(descendArray(current, Atoi(indexes[1]).n).val, Tail(indexes))

DescendSegment(current, seg) ==
    IF seg.name = "" THEN DescendIndexes(current, seg.indexes)
    ELSE IF ~descendMap(current, seg.name).ok THEN NotFound
    ELSE DescendIndexes(descendMap(current, seg.name).val, seg.indexes)

RECURSIVE DescendSegments(_, _)
DescendSegments(current, segments) ==
    IF segments = <<>> THEN Found(current)
    ELSE IF ~DescendSegment(current, parseSegment(segments[1])).ok THEN NotFound
    ELSE DescendSegments(DescendSegment(current, parseSegment(segments[1])).val,
                         Tail(segments))

resolvePath(data, path) == DescendSegments(data, Split(path))

\* fmt.Sprint: a string as it is; a map, an array and nil in Go's notation,
\* of which only the kind is kept.
Sprint(val) ==
    CASE val.t = "str" -> val.s
      [] val.t = "map" -> "map[]"
      [] val.t = "arr" -> "[]"
      [] OTHER -> "<nil>"

\* The end of a match of exprPattern, \$\{([^}]+)\}, that starts at the first
\* token; 0 when none starts there.
MatchEnd(text) ==
    IF Len(text) >= 4 /\ text[1] = "$" /\ text[2] = "{"
       /\ IndexOf(SubSeq(text, 3, Len(text)), "}") >= 2
    THEN 2 + IndexOf(SubSeq(text, 3, Len(text)), "}")
    ELSE 0

\* A faulty replacement: a placeholder that does not resolve is left out.
ReplaceMatchBlanking(match, data) ==
    IF TrimSpace(SubSeq(match, 3, Len(match) - 1)) = <<>> THEN match
    ELSE IF resolvePath(data, TrimSpace(SubSeq(match, 3, Len(match) - 1))).ok
    THEN <<Sprint(resolvePath(data, TrimSpace(SubSeq(match, 3, Len(match) - 1))).val)>>
    ELSE <<>>

\* The function Interpolate hands to ReplaceAllStringFunc.
ReplaceMatch(match, data) ==
    IF TrimSpace(SubSeq(match, 3, Len(match) - 1)) = <<>> THEN match
    ELSE IF resolvePath(data, TrimSpace(SubSeq(match, 3, Len(match) - 1))).ok
    THEN <<Sprint(resolvePath(data, TrimSpace(SubSeq(match, 3, Len(match) - 1))).val)>>
    ELSE match

RECURSIVE ReplaceAll(_, _)
ReplaceAll(text, data) ==
    IF text = <<>> THEN <<>>
    ELSE IF MatchEnd(text) = 0 THEN <<text[1]>> \o ReplaceAll(Tail(text), data)
    ELSE ReplaceMatch(SubSeq(text, 1, MatchEnd(text)), data)
         \o ReplaceAll(SubSeq(text, MatchEnd(text) + 1, Len(text)), data)

\* A faulty binding: the text is returned as written.
InterpolateNever(text, data) == text

Interpolate(text, data) == IF data.t = "nil" THEN text ELSE ReplaceAll(text, data)

\* ------------------------------------------------------------ line wrapping

(* greedyWrapTokens of the canvas renderer.  A content is a sequence of     *)
(* characters; face.TextWidth of a string is the sum of the widths of its   *)
(* characters.  A line is [Content, Width]; by tells what ended it (the     *)
(* width limit, an explicit newline, or the end of the content) and is      *)
(* history, read by the properties only.                                    *)
CharWidth == [c \in {"a", "i", " ", "\n", "\r"} |->
                 CASE c = "a" -> 2 [] c \in {"i", " "} -> 1 [] OTHER -> 0]

RECURSIVE TextWidth(_)
TextWidth(s) == IF s = <<>> THEN 0 ELSE CharWidth[s[1]] + TextWidth(Tail(s))

\* math.MaxFloat64, the limit taken for a width that is not positive.
MaxFloat64 == 1000000

WrapLimit(width) == IF width <= 0 THEN MaxFloat64 ELSE width

WrapLine(content, width, by) == [Content |-> content, Width |-> width, by |-> by]

NewWrap == [lines |-> <<>>, builder |-> <<>>, current |-> 0]

\* A faulty emit: an empty line is never appended.
EmitNonEmpty(st, by) ==
    IF st.builder = <<>> THEN st
    ELSE [lines |-> Append(st.lines, WrapLine(st.builder, st.current, by)),
          builder |-> <<>>, current |-> 0]

\* The emit closure: by is "width" for emit(false).
Emit(st, by) ==
    IF st.builder = <<>>
    THEN IF by = "width" THEN st
         ELSE [st EXCEPT !.lines = Append(st.lines, WrapLine(<<>>, 0, by))]
    ELSE [lines |-> Append(st.lines, WrapLine(st.builder, st.current, by)),
          builder |-> <<>>, current |-> 0]

\* strings.Split(content, "\n") of the nowrap branch, each part measured.
RECURSIVE NoWrapLines(_)
NoWrapLines(content) ==
    IF IndexOf(content, "\n") = 0
    THEN <<WrapLine(content, TextWidth(content), "end")>>
    ELSE <<WrapLine(SubSeq(content, 1, IndexOf(content, "\n") - 1),
                    TextWidth(SubSeq(content, 1, IndexOf(content, "\n") - 1)), "newline")>>
         \o NoWrapLines(SubSeq(content, IndexOf(content, "\n") + 1, Len(content)))

\* A faulty append: the line is emitted as soon as it fills the limit.
AppendPieceEager(st, piece, limit) ==
    IF st.current + TextWidth(piece) >= limit
    THEN Emit([st EXCEPT !.builder = st.builder \o piece,
                         !.current = st.current + TextWidth(piece)], "width")
    ELSE [st EXCEPT !.builder = st.builder \o piece,
                    !.current = st.current + TextWidth(piece)]

\* Appending a piece to the line being built, then emitting it when it has
\* become wider than the limit.
AppendPiece(st, piece, limit) ==
    IF st.current + TextWidth(piece) > limit
    THEN Emit([st EXCEPT !.builder = st.builder \o piece,
                         !.current = st.current + TextWidth(piece)], "width")
    ELSE [st EXCEPT !.builder = st.builder \o piece,
                    !.current = st.current + TextWidth(piece)]

\* A faulty fit: a piece that would exactly fill the line starts a new one.
PlacePieceEarly(st, piece, limit) ==
    AppendPiece(IF st.current > 0 /\ st.current + TextWidth(piece) >= limit
                THEN Emit(st, "width") ELSE st,
                piece, limit)

\* The line is emitted first when the piece does not fit it.
PlacePiece(st, piece, limit) ==
    AppendPiece(IF st.current > 0 /\ st.current + TextWidth(piece) > limit
                THEN Emit(st, "width") ELSE st,
                piece, limit)

\* The break-word loop over the characters from i on.
RECURSIVE BreakWordFrom(_, _, _, _)
BreakWordFrom(content, i, st, limit) ==
    IF i > Len(content) THEN Emit(st, "end").lines
    ELSE IF content[i] = "\r" THEN BreakWordFrom(content, i + 1, st, limit)
    ELSE IF content[i] = "\n" THEN BreakWordFrom(content, i + 1, Emit(st, "newline"), limit)
    ELSE BreakWordFrom(content, i + 1, PlacePiece(st, <<content[i]>>, limit), limit)

IsSpace(c) == c \in {" ", "\n", "\r"}

\* tokenizeContent from character i on; run is the token being collected.
RECURSIVE TokenizeFrom(_, _, _)
TokenizeFrom(s, i, run) ==
    IF i > Len(s) THEN (IF run = <<>> THEN <<>> ELSE <<run>>)
    ELSE IF s[i] = "\r" THEN TokenizeFrom(s, i + 1, run)
    ELSE IF s[i] = "\n"
         THEN (IF run = <<>> THEN <<>> ELSE <<run>>) \o <<(<<"\n">>)>>
              \o TokenizeFrom(s, i + 1, <<>>)
    ELSE IF run # <<>> /\ IsSpace(run[1]) # IsSpace(s[i])
         THEN <<run>> \o TokenizeFrom(s, i + 1, <<s[i]>>)
    ELSE TokenizeFrom(s, i + 1, Append(run, s[i]))

\* A faulty tokenizer: the runs of blanks are left out.
tokenizeContentNoBlanks(s) ==
    SelectSeq(TokenizeFrom(s, 1, <<>>), LAMBDA t : t = <<"\n">> \/ ~IsSpace(t[1]))

tokenizeContent(s) == TokenizeFrom(s, 1, <<>>)

\* splitTokenByWidth from character i on; part is the builder.
RECURSIVE SplitFrom(_, _, _, _)
SplitFrom(token, i, part, limit) ==
    IF i > Len(token) THEN (IF part = <<>> THEN <<>> ELSE <<part>>)
    ELSE IF TextWidth(Append(part, token[i])) > limit /\ Len(part) + 1 > 1
         THEN <<part>> \o SplitFrom(token, i + 1, <<token[i]>>, limit)
    ELSE SplitFrom(token, i + 1, Append(part, token[i]), limit)

\* A faulty split: the token is kept whole.
splitTokenWhole(token, limit) == <<token>>

splitTokenByWidth(token, limit) ==
    IF limit <= 0 \/ limit = MaxFloat64 THEN <<token>>
    ELSE SplitFrom(token, 1, <<>>, limit)

RECURSIVE PlaceChunks(_, _, _, _)
PlaceChunks(chunks, i, st, limit) ==
    IF i > Len(chunks) THEN st
    ELSE PlaceChunks(chunks, i + 1, PlacePiece(st, chunks[i], limit), limit)

\* One round of the loop over the tokens: a token that fits the limit,
\* and one that does not.
PlaceToken(st, token, limit) ==
    IF TextWidth(token) <= limit
    THEN PlacePiece(st, token, limit)
    ELSE PlaceChunks(splitTokenByWidth(token, limit), 1,
                     IF st.current > 0 /\ st.current + TextWidth(token) > limit
                     THEN Emit(st, "width") ELSE st,
                     limit)

RECURSIVE AnywhereFrom(_, _, _, _)
AnywhereFrom(tokens, i, st, limit) ==
    IF i > Len(tokens) THEN Emit(st, "end").lines
    ELSE IF tokens[i] = <<"\n">> THEN AnywhereFrom(tokens, i + 1, Emit(st, "newline"), limit)
    ELSE AnywhereFrom(tokens, i + 1, PlaceToken(st, tokens[i], limit), limit)

\* A faulty dispatch: nowrap slices by width like break-word.
greedyWrapTokensByWidth(content, width, wrap) ==
    CASE wrap \in {"nowrap", "break-word"} ->
             BreakWordFrom(content, 1, NewWrap, WrapLimit(width))
      [] OTHER -> AnywhereFrom(tokenizeContent(content), 1, NewWrap, WrapLimit(width))

\* The lines of a content under a width and a wrap policy.
greedyWrapTokens(content, width, wrap) ==
    CASE wrap = "nowrap" -> NoWrapLines(content)
      [] wrap = "break-word" -> BreakWordFrom(content, 1, NewWrap, WrapLimit(width))
      [] OTHER -> AnywhereFrom(tokenizeContent(content), 1, NewWrap, WrapLimit(width))

\* ----------------------------------------------------------- text composer

(* What the Typesetter returned for one text: an error, or line records.    *)
(* The engine calls it with the same content and width when a table is      *)
(* rebuilt, so the answer is part of the text's description.                *)
TsLines(ls) == [err |-> FALSE, lines |-> ls]
TsError == [err |-> TRUE, lines |-> <<>>]
TLine(h, g, w) == [Height |-> h, GapBefore |-> g, Width |-> w]

\* layoutLines with a Typesetter: an empty answer becomes one empty line of
\* the font size, and the first line's gap is cleared.
layoutLines(width, fontSize, lineHeight, ts) ==
    LET lines == IF Len(ts.lines) = 0
                 THEN <<TLine(IF fontSize <= 0 THEN lineHeight ELSE fontSize, 0, width)>>
                 ELSE ts.lines
    IN [i \in 1..Len(lines) |->
           IF i = 1 THEN [lines[i] EXCEPT !.GapBefore = 0] ELSE lines[i]]

\* The loop of composeTextBox that fills in missing heights and gaps.
NormalizeLines(lines, fontSize, lineHeight) ==
    LET defaultLeading == Max(lineHeight - fontSize, 0)
    IN [i \in 1..Len(lines) |->
           LET h == IF lines[i].Height <= 0 THEN fontSize ELSE lines[i].Height
               g == IF i = 1 THEN 0
                    ELSE IF lines[i].GapBefore <= 0 THEN defaultLeading
                    ELSE lines[i].GapBefore
           IN [lines[i] EXCEPT !.Height = h, !.GapBefore = g]]

RECURSIVE SumLines(_)
SumLines(lines) ==
    IF Len(lines) = 0 THEN 0
    ELSE lines[1].GapBefore + lines[1].Height + SumLines(Tail(lines))

RECURSIVE SumHeights(_)
SumHeights(lines) ==
    IF Len(lines) = 0 THEN 0 ELSE lines[1].Height + SumHeights(Tail(lines))

\* A faulty total: the gaps between the lines are left out.
TotalHeightNoGaps(lines) == SumHeights(lines)

\* totalHeight as the loop accumulates it.
TotalHeight(lines) == SumLines(lines)

ResolveFontSize(attrs) ==
    LET fs == parseLength(Attr(attrs, "size"))
    IN IF fs <= 0 THEN 12 * 352777 ELSE fs

ResolveLineHeight(attrs, fontSize) ==
    LET v == Attr(attrs, "line-height")
    IN IF v.kind = "empty" THEN (fontSize * 14) \div 10
       ELSE IF v.kind = "num" /\ v.unit = "x"
            THEN IF v.num > 0 THEN fontSize * v.num ELSE (fontSize * 14) \div 10
            ELSE IF parseLength(v) > 0 THEN parseLength(v)
                 ELSE (fontSize * 14) \div 10

NormalizeAlign(w) ==
    LET v == IF w = "start" THEN "left" ELSE IF w = "end" THEN "right" ELSE w
    IN IF v \in {"left", "center", "right"} THEN v ELSE ""

\* The TextBox composeTextBox returns for the normalized lines.
TextBoxOf(content, x, y, width, wrap, align, fontSize, lineHeight, lines) ==
    [Content |-> content, X |-> x, Y |-> y, Width |-> width,
     LineHeight |-> lineHeight, FontSize |-> fontSize, Lines |-> lines,
     Height |-> TotalHeight(lines), Wrap |-> wrap, Align |-> align]

\* composeTextBox once the attributes are merged and the sizes resolved.
ComposeSized(attrs, content, x, y, width, ts, wrap, fontSize, lineHeight) ==
    IF ts.err THEN [ok |-> FALSE, tb |-> <<>>]
    ELSE [ok |-> TRUE,
          tb |-> TextBoxOf(Join(Interpolate(content, doc.data)), x, y, width, wrap,
                           NormalizeAlign(AttrWord(attrs, "align")),
                           fontSize, lineHeight,
                           NormalizeLines(layoutLines(width, fontSize, lineHeight, ts),
                                          fontSize, lineHeight))]

ComposeMerged(attrs, content, x, y, width, ts, wrap, fontSize) ==
    ComposeSized(attrs, content, x, y, width, ts, wrap, fontSize,
                 ResolveLineHeight(attrs, fontSize))

(* composeTextBox: [ok, tb]; the height it also returns is tb.Height.  The  *)
(* font always resolves, since collectResources puts a font named Body in   *)
(* an empty font map.                                                       *)
composeTextBox(style, attrs0, content, x, y, width, styles, ts, wrap) ==
    ComposeMerged(mergeStyleAttributes(style, attrs0, styles), content, x, y, width,
                  ts, wrap,
                  ResolveFontSize(mergeStyleAttributes(style, attrs0, styles)))

\* ParseRawLengthStr: the number and the unit as written; a value that is
\* no number with one of the four units or none gives 0 and no unit.
ParseRawLengthStr(v) ==
    IF v.kind = "num" /\ v.unit \in {"mm", "cm", "in", "pt", ""}
    THEN [Value |-> v.num, Unit |-> v.unit]
    ELSE [Value |-> 0, Unit |-> ""]

\* sizeRaw of the debug record.
RawFontSize(attrs) ==
    IF ParseRawLengthStr(Attr(attrs, "size")).Unit = ""
       \/ ParseRawLengthStr(Attr(attrs, "size")).Value <= 0
    THEN [Value |-> 12, Unit |-> "pt"]
    ELSE ParseRawLengthStr(Attr(attrs, "size"))

\* The zero value of RawLineHeightJSON, and its two kinds. Factors are kept
\* in tenths, so that 1.4 is 14.
NoRawLineHeight == [Kind |-> "", Tenths |-> 0, Value |-> 0, Unit |-> ""]
RawFactor(tenths) == [Kind |-> "factor", Tenths |-> tenths, Value |-> 0, Unit |-> ""]
RawAbsolute(value, unit) == [Kind |-> "absolute", Tenths |-> 0, Value |-> value, Unit |-> unit]

\* lhRaw of the debug record.
RawLineHeight(attrs) ==
    IF Attr(attrs, "line-height").kind = "empty" THEN RawFactor(14)
    ELSE IF Attr(attrs, "line-height").kind = "num" /\ Attr(attrs, "line-height").unit = "x"
         THEN IF Attr(attrs, "line-height").num > 0
              THEN RawFactor(10 * Attr(attrs, "line-height").num)
              ELSE NoRawLineHeight
    ELSE IF ParseRawLengthStr(Attr(attrs, "line-height")).Unit # ""
            /\ ParseRawLengthStr(Attr(attrs, "line-height")).Value > 0
         THEN RawAbsolute(ParseRawLengthStr(Attr(attrs, "line-height")).Value,
                          ParseRawLengthStr(Attr(attrs, "line-height")).Unit)
         ELSE NoRawLineHeight

\* The end of composeTextBox: with Debug.RawUnits the text box gets a debug
\* record of the merged attributes. The builds of Spec run without it.
WithRawUnits(c, attrs, rawUnits) ==
    IF c.ok /\ rawUnits
    THEN [c EXCEPT !.tb = c.tb @@ [Debug |-> [FontSize |-> RawFontSize(attrs),
                                              LineHeight |-> RawLineHeight(attrs)]]]
    ELSE c

\* ------------------------------------------------------- style resolution

(* resolveStyles.  The range over the map visits the names in any order     *)
(* (todo); one dfs call chain is dfsStack, its last element the call that   *)
(* is running.  A style is [Extends, Props].                                *)
RawStyles == doc.styles

\* dfs(name) reached from the loop or from a style's extends: what the call
\* finds before it does anything.
DfsEntry(name) ==
    IF name \in DOMAIN resolved THEN "memo"
    ELSE IF name \notin DOMAIN RawStyles THEN "undefined"
    ELSE IF name \in visiting THEN "cycle"
    ELSE "enter"

\* A faulty merge: the parent's properties win over the style's own.
MergedPropsParentWins(name) ==
    LET style == RawStyles[name]
    IN IF style.Extends # ""
       THEN Overlay(style.Props, resolved[style.Extends].Props)
       ELSE Overlay(NoAttrs, style.Props)

\* The merge at the end of dfs: the parent's resolved properties, overlaid
\* by the style's own.
MergedProps(name) ==
    LET style == RawStyles[name]
    IN IF style.Extends # ""
       THEN Overlay(resolved[style.Extends].Props, style.Props)
       ELSE Overlay(NoAttrs, style.Props)

SetResolved(name) ==
    [n \in DOMAIN resolved \cup {name} |->
        IF n = name
        THEN [Extends |-> RawStyles[name].Extends, Props |-> MergedProps(name)]
        ELSE resolved[n]]

BodyUnchanged == UNCHANGED <<collector, stack, stmts, last>>

\* for name := range styles { dfs(name) }: the next name of the loop.  A
\* name resolved already returns from the memo at once.
StyleVisit ==
    /\ phase = "resources"
    /\ dfsStack = <<>>
    /\ \E name \in todo :
          /\ todo' = todo \ {name}
          /\ IF DfsEntry(name) = "memo"
             THEN UNCHANGED <<dfsStack, visiting>>
             ELSE /\ dfsStack' = <<name>>
                  /\ visiting' = visiting \cup {name}
    /\ UNCHANGED <<doc, phase, resolved, result, err>>
    /\ BodyUnchanged

\* The running dfs call has a parent to resolve first and calls dfs on it.
StyleDescend ==
    /\ phase = "resources"
    /\ dfsStack # <<>>
    /\ LET name == dfsStack[Len(dfsStack)]
           parent == RawStyles[name].Extends
       IN /\ parent # ""
          /\ DfsEntry(parent) = "enter"
          /\ dfsStack' = Append(dfsStack, parent)
          /\ visiting' = visiting \cup {parent}
    /\ UNCHANGED <<doc, phase, todo, resolved, result, err>>
    /\ BodyUnchanged

\* The running dfs call has what it needs (no parent, or the parent is in
\* the memo): it merges, stores the result and returns to its caller.
StyleMerge ==
    /\ phase = "resources"
    /\ dfsStack # <<>>
    /\ LET name == dfsStack[Len(dfsStack)]
           parent == RawStyles[name].Extends
       IN /\ parent = "" \/ DfsEntry(parent) = "memo"
          /\ resolved' = SetResolved(name)
          /\ visiting' = visiting \ {name}
          /\ dfsStack' = SubSeq(dfsStack, 1, Len(dfsStack) - 1)
    /\ UNCHANGED <<doc, phase, todo, result, err>>
    /\ BodyUnchanged

\* A faulty failure: the error of dfs is dropped and Build goes on.
StyleFailDropped ==
    /\ phase = "resources"
    /\ dfsStack # <<>>
    /\ LET name == dfsStack[Len(dfsStack)]
           parent == RawStyles[name].Extends
       IN /\ parent # ""
          /\ DfsEntry(parent) \in {"undefined", "cycle"}
    /\ phase' = "pages"
    /\ UNCHANGED <<doc, todo, dfsStack, visiting, resolved, result, err>>
    /\ BodyUnchanged

\* dfs on the parent fails (not declared, or being visited): the error goes
\* up through every dfs call, resolveStyles, collectResources and Build.
StyleFail ==
    /\ phase = "resources"
    /\ dfsStack # <<>>
    /\ LET name == dfsStack[Len(dfsStack)]
           parent == RawStyles[name].Extends
       IN /\ parent # ""
          /\ DfsEntry(parent) \in {"undefined", "cycle"}
          /\ err' = DfsEntry(parent)
    /\ phase' = "done"
    /\ result' = NoResult
    /\ UNCHANGED <<doc, todo, dfsStack, visiting, resolved>>
    /\ BodyUnchanged

\* resolveStyles returns the memo and collectResources stores it.
StylesDone ==
    /\ phase = "resources"
    /\ dfsStack = <<>>
    /\ todo = {}
    /\ phase' = "pages"
    /\ UNCHANGED <<doc, todo, dfsStack, visiting, resolved, result, err>>
    /\ BodyUnchanged

\* Build's two checks before collectResources.
BuildStart ==
    /\ phase = "start"
    /\ IF doc.isNil \/ ~doc.typesetter
       THEN /\ phase' = "done"
            /\ result' = NoResult
            /\ err' = IF doc.isNil THEN "nil document" ELSE "no typesetter"
       ELSE /\ phase' = "resources"
            /\ UNCHANGED <<result, err>>
    /\ UNCHANGED <<doc, todo, dfsStack, visiting, resolved>>
    /\ BodyUnchanged

NextStyles == StyleVisit \/ StyleDescend \/ StyleMerge \/ StyleFail \/ StylesDone

\* ------------------------------------------------------------- page set-up

Margin(t, r, b, l) == [Top |-> t, Right |-> r, Bottom |-> b, Left |-> l]

\* pagePresets and resolvePageSize: every landscape token swaps width and
\* height; ok is FALSE for a size that is no preset.
resolvePageSize(size, params) ==
    LET known == size \in {"A4", "A5"}
        base == IF size = "A4" THEN <<Mm(210), Mm(297)>> ELSE <<Mm(148), Mm(210)>>
        swaps == Cardinality({i \in 1..Len(params) : params[i] = Word("landscape")})
    IN [ok |-> known,
        width |-> IF swaps % 2 = 1 THEN base[2] ELSE base[1],
        height |-> IF swaps % 2 = 1 THEN base[1] ELSE base[2]]

\* The guard of resolveMargin's inner loop: trimUnit, then ParseFloat.
IsNumeric(v) == v.kind = "num" /\ v.unit \in {"pt", "mm", "cm", "in", "%", ""}

\* The values collected after the margin keyword, from params[j] on.
RECURSIVE CollectMarginVals(_, _, _)
CollectMarginVals(params, j, vals) ==
    IF j > Len(params) \/ Len(vals) >= 4 \/ ~IsNumeric(params[j]) THEN vals
    ELSE CollectMarginVals(params, j + 1, Append(vals, parseLength(params[j])))

\* A faulty shorthand: with three values the left side mirrors the right.
ApplyMarginValsMirrored(vals, margin) ==
    CASE Len(vals) = 1 -> Margin(vals[1], vals[1], vals[1], vals[1])
      [] Len(vals) = 2 -> Margin(vals[1], vals[2], vals[1], vals[2])
      [] Len(vals) = 3 -> Margin(vals[1], vals[2], vals[3], vals[2])
      [] Len(vals) = 4 -> Margin(vals[1], vals[2], vals[3], vals[4])
      [] OTHER -> margin

ApplyMarginVals(vals, margin) ==
    CASE Len(vals) = 1 -> Margin(vals[1], vals[1], vals[1], vals[1])
      [] Len(vals) = 2 -> Margin(vals[1], vals[2], vals[1], vals[2])
      [] Len(vals) = 3 -> Margin(vals[1], vals[2], vals[3], 0)
      [] Len(vals) = 4 -> Margin(vals[1], vals[2], vals[3], vals[4])
      [] OTHER -> margin

RECURSIVE MarginFrom(_, _, _)
MarginFrom(params, i, margin) ==
    IF i > Len(params) THEN margin
    ELSE MarginFrom(params, i + 1,
                    IF params[i] = Word("margin")
                    THEN ApplyMarginVals(CollectMarginVals(params, i + 1, <<>>), margin)
                    ELSE margin)

resolveMargin(params) == MarginFrom(params, 1, Margin(Mm(20), Mm(20), Mm(20), Mm(20)))

\* ----------------------------------------------------------- images

(* The size of an image box: the resource's declared size, overridden by    *)
(* positive width/height attributes, then the container width (40 mm when   *)
(* that is not positive), and 0.6 x width for a height still unset.         *)
ImageSize(img, attrs, ctxWidth, fallbackWidth) ==
    LET w0 == IF img.resWidth > 0 THEN img.resWidth ELSE 0
        h0 == IF img.resHeight > 0 THEN img.resHeight ELSE 0
        aw == parseDimension(Attr(attrs, "width"), ctxWidth)
        ah == parseDimension(Attr(attrs, "height"), ctxWidth)
        w1 == IF aw > 0 THEN aw ELSE w0
        h1 == IF ah > 0 THEN ah ELSE h0
        w2 == IF w1 = 0 THEN fallbackWidth ELSE w1
        h2 == IF h1 = 0 THEN (w2 * 6) \div 10 ELSE h1
    IN [Width |-> w2, Height |-> h2]

\* ------------------------------------------------------------------ shapes

Len0(attrs, key) == parseLength(Attr(attrs, key))

\* parseLineShape, parseRectShape and parseCircleShape: [ok, shape].
parseLineShape(attrs) ==
    LET x1 == Len0(attrs, "x1")  y1 == Len0(attrs, "y1")
        x2 == Len0(attrs, "x2")  y2 == Len0(attrs, "y2")
        x == Len0(attrs, "x")    y == Len0(attrs, "y")
        length == Len0(attrs, "length")
        d == AttrWord(attrs, "dir")
        ln(a, b, c, e) == [X1 |-> a, Y1 |-> b, X2 |-> c, Y2 |-> e,
                           Width |-> Len0(attrs, "width")]
    IN IF x1 # 0 \/ y1 # 0 \/ x2 # 0 \/ y2 # 0
       THEN [ok |-> TRUE, shape |-> ln(x1, y1, x2, y2)]
       ELSE IF (x # 0 \/ y # 0) /\ length > 0
            THEN IF d \in {"", "h", "hor", "horizontal"}
                 THEN [ok |-> TRUE, shape |-> ln(x, y, x + length, y)]
                 ELSE IF d \in {"v", "ver", "vertical"}
                      THEN [ok |-> TRUE, shape |-> ln(x, y, x, y + length)]
                      ELSE [ok |-> FALSE, shape |-> ln(0, 0, 0, 0)]
            ELSE [ok |-> FALSE, shape |-> ln(0, 0, 0, 0)]

parseRectShape(attrs) ==
    [ok |-> Len0(attrs, "width") > 0 /\ Len0(attrs, "height") > 0,
     shape |-> [X |-> Len0(attrs, "x"), Y |-> Len0(attrs, "y"),
                Width |-> Len0(attrs, "width"), Height |-> Len0(attrs, "height")]]

parseCircleShape(attrs) ==
    [ok |-> Len0(attrs, "r") > 0,
     shape |-> [CX |-> Len0(attrs, "cx"), CY |-> Len0(attrs, "cy"),
                R |-> Len0(attrs, "r")]]

\* ------------------------------------------------------- header and footer

NoHeaderFooter ==
    [Height |-> 0, Texts |-> <<>>, Images |-> <<>>, Lines |-> <<>>, Rects |-> <<>>,
     Circles |-> <<>>]

HeaderAlign(w) ==
    LET v == IF w = "start" THEN "left" ELSE IF w = "end" THEN "right" ELSE w
    IN IF v \in {"left", "center", "right"} THEN v ELSE "center"

\* A header or footer text joins the stack: the header widens and aligns it.
HeaderFooterText(it, st, c, margin, contentWidth, kind) ==
    IF ~c.ok THEN [st EXCEPT !.ok = FALSE]
    ELSE [st EXCEPT
            !.texts = Append(st.texts,
                IF kind = "header"
                THEN [c.tb EXCEPT !.X = margin.Left, !.Width = contentWidth,
                                  !.Align = HeaderAlign(AttrWord(it.attrs, "align")),
                                  !.Y = st.cursorY + c.tb.Y]
                ELSE [c.tb EXCEPT !.Y = st.cursorY + c.tb.Y]),
            !.cursorY = st.cursorY + c.tb.Height + blockSpacing]

HeaderFooterImage(it, st, sz, margin, contentWidth, kind) ==
    LET a == HeaderAlign(AttrWord(mergeStyleAttributes(it.style, it.attrs, resolved),
                                  "align"))
        x == IF kind # "header" \/ a = "left" THEN margin.Left
             ELSE IF a = "right" THEN margin.Left + contentWidth - sz.Width
             ELSE margin.Left + (contentWidth - sz.Width) \div 2
    IN [st EXCEPT !.images = Append(st.images,
                      [X |-> x, Y |-> st.cursorY, Width |-> sz.Width,
                       Height |-> sz.Height]),
                  !.cursorY = st.cursorY + sz.Height + blockSpacing]

(* One statement of buildHeaderFooter's stacking loop: st carries the lists, *)
(* the cursor and whether composeTextBox failed.                            *)
HeaderFooterItem(it, st, margin, contentWidth, kind) ==
    IF it.cmd = "text"
    THEN HeaderFooterText(it, st,
             composeTextBox(it.style, mergeStyleAttributes(it.style, it.attrs, resolved),
                            it.content, margin.Left, 0, contentWidth, resolved, it.ts,
                            normalizeWrap(AttrWord(
                                mergeStyleAttributes(it.style, it.attrs, resolved), "wrap"))),
             margin, contentWidth, kind)
    ELSE IF it.cmd = "image"
    THEN HeaderFooterImage(it, st,
                           ImageSize(it, mergeStyleAttributes(it.style, it.attrs, resolved),
                                     contentWidth, contentWidth),
                           margin, contentWidth, kind)
    ELSE IF it.cmd = "line" /\ parseLineShape(it.attrs).ok
    THEN [st EXCEPT !.lines = Append(st.lines, parseLineShape(it.attrs).shape)]
    ELSE IF it.cmd = "rect" /\ parseRectShape(it.attrs).ok
    THEN [st EXCEPT !.rects = Append(st.rects, parseRectShape(it.attrs).shape)]
    ELSE IF it.cmd = "circle" /\ parseCircleShape(it.attrs).ok
    THEN [st EXCEPT !.circles = Append(st.circles, parseCircleShape(it.attrs).shape)]
    ELSE st

RECURSIVE StackHeaderFooter(_, _, _, _, _, _)
StackHeaderFooter(items, i, st, margin, contentWidth, kind) ==
    IF i > Len(items) \/ ~st.ok THEN st
    ELSE StackHeaderFooter(items, i + 1,
                           HeaderFooterItem(items[i], st, margin, contentWidth, kind),
                           margin, contentWidth, kind)

\* buildHeaderFooter after the loop: the band height and the shift of the
\* stacked items to page coordinates.
PlaceHeaderFooter(def, st, pageH, contentWidth, kind) ==
    LET contentHeight == IF st.cursorY > 0 THEN st.cursorY - blockSpacing ELSE st.cursorY
        h == parseDimension(Attr(def.attrs, "height"), contentWidth)
        areaHeight == IF h > 0 THEN h ELSE contentHeight
        baseY == IF kind = "header" THEN Max(areaHeight - contentHeight, 0)
                 ELSE pageH - areaHeight
    IN IF ~st.ok THEN [ok |-> FALSE, hf |-> NoHeaderFooter]
       ELSE [ok |-> TRUE,
             hf |-> [Height |-> areaHeight,
                     Texts |-> [i \in 1..Len(st.texts) |->
                                  [st.texts[i] EXCEPT !.Y = st.texts[i].Y + baseY]],
                     Images |-> [i \in 1..Len(st.images) |->
                                  [st.images[i] EXCEPT !.Y = st.images[i].Y + baseY]],
                     Lines |-> st.lines, Rects |-> st.rects, Circles |-> st.circles]]

(* buildHeaderFooter: [ok, hf].  def is the header or footer command:       *)
(* [hasBlock, attrs, items].                                                *)
buildHeaderFooter(def, pageW, pageH, margin, kind) ==
    IF ~def.hasBlock THEN [ok |-> TRUE, hf |-> NoHeaderFooter]
    ELSE PlaceHeaderFooter(def,
             StackHeaderFooter(def.items, 1,
                 [ok |-> TRUE, texts |-> <<>>, images |-> <<>>, lines |-> <<>>,
                  rects |-> <<>>, circles |-> <<>>, cursorY |-> 0],
                 margin, pageW - margin.Left - margin.Right, kind),
             pageH, pageW - margin.Left - margin.Right, kind)

\* ------------------------------------------------------------ the collector

EmptyAcc == [texts |-> <<>>, images |-> <<>>, tables |-> <<>>,
             lines |-> <<>>, rects |-> <<>>, circles |-> <<>>]

\* A faulty new page: the current index stays on the page it designated.
newPageStale(pc) ==
    [pc EXCEPT !.accs = Append(pc.accs, EmptyAcc),
               !.current = IF pc.accs = <<>> THEN 1 ELSE pc.current]

newPage(pc) ==
    [pc EXCEPT !.accs = Append(pc.accs, EmptyAcc), !.current = Len(pc.accs) + 1]

newPageCollector(width, height, margin) ==
    newPage([width |-> width, height |-> height, margin |-> margin,
             accs |-> <<>>, current |-> 0,
             header |-> NoHeaderFooter, footer |-> NoHeaderFooter])

\* A faulty content top: the header band is not taken into account.
contentTopOfMargin(pc) == pc.margin.Top

contentTop(pc) ==
    IF pc.header.Height > pc.margin.Top THEN pc.header.Height ELSE pc.margin.Top

contentBottom(pc) ==
    pc.height - (IF pc.footer.Height > pc.margin.Bottom
                 THEN pc.footer.Height ELSE pc.margin.Bottom)

maxContentY(pc) == contentBottom(pc)

\* Faulty pages: only the first page carries the header and the footer.
allPagesBandsOnFirst(pc) ==
    [i \in 1..Len(pc.accs) |->
        [Width |-> pc.width, Height |-> pc.height, Margin |-> pc.margin,
         Texts |-> pc.accs[i].texts, Images |-> pc.accs[i].images,
         Tables |-> pc.accs[i].tables, Lines |-> pc.accs[i].lines,
         Rects |-> pc.accs[i].rects, Circles |-> pc.accs[i].circles,
         Header |-> IF i = 1 THEN pc.header ELSE NoHeaderFooter,
         Footer |-> IF i = 1 THEN pc.footer ELSE NoHeaderFooter]]

\* One Page per accumulator, each with the collector's geometry and bands.
allPages(pc) ==
    [i \in 1..Len(pc.accs) |->
        [Width |-> pc.width, Height |-> pc.height, Margin |-> pc.margin,
         Texts |-> pc.accs[i].texts, Images |-> pc.accs[i].images,
         Tables |-> pc.accs[i].tables, Lines |-> pc.accs[i].lines,
         Rects |-> pc.accs[i].rects, Circles |-> pc.accs[i].circles,
         Header |-> pc.header, Footer |-> pc.footer]]

\* A faulty append: the item goes to the first page.
AppendToFirst(pc, list, item) ==
    [pc EXCEPT !.accs[1][list] = Append(pc.accs[1][list], item)]

\* The current accumulator with one item appended to one of its lists.
AppendTo(pc, list, item) ==
    [pc EXCEPT !.accs[pc.current][list] = Append(pc.accs[pc.current][list], item)]

\* ------------------------------------------------------------ flow contexts

(* A flowContext.  kind tells which handler made it; enterCursor and        *)
(* enterPages record the parent's cursorY and the page count at that        *)
(* moment, and a frame on the stack also carries the arguments of the       *)
(* statement that opened it (history, read by the properties only).         *)
Ctx(kind, baseX, baseY, width, cursorY, allow, align, wrap, enterCursor, enterPages) ==
    [kind |-> kind, baseX |-> baseX, baseY |-> baseY, width |-> width,
     cursorY |-> cursorY, allowPageBreak |-> allow, textAlign |-> align,
     textWrap |-> wrap, enterCursor |-> enterCursor, enterPages |-> enterPages]

Depth == Len(stack)
Top == stack[Depth]

(* pageBreak called on frame n: the call goes up to the root, which takes   *)
(* the new page's content top, and on the way back each frame takes its     *)
(* parent's cursor.                                                         *)
TakeParentCursor(frames, n) ==
    [frames EXCEPT ![n].baseY = frames[n - 1].cursorY,
                   ![n].cursorY = frames[n - 1].cursorY]

RECURSIVE pageBreakFrames(_, _, _)
pageBreakFrames(frames, n, pc) ==
    IF n = 1
    THEN [frames EXCEPT ![1].baseX = pc.margin.Left,
                        ![1].baseY = contentTop(pc),
                        ![1].cursorY = contentTop(pc)]
    ELSE TakeParentCursor(pageBreakFrames(frames, n - 1, pc), n)

pageBreak(frames, pc) ==
    [stack |-> pageBreakFrames(frames, Len(frames), newPage(pc)),
     collector |-> newPage(pc), broke |-> TRUE]

\* A faulty decision: the item is held against the page height, not against
\* the bottom of the content area.
NeedsBreakAtPageEnd(ctx, pc, h) ==
    /\ ctx.allowPageBreak
    /\ ~(ctx.cursorY + h <= pc.height)

\* ensureSpace's decision for the current context and an item of height h.
NeedsBreak(ctx, pc, h) ==
    /\ ctx.allowPageBreak
    /\ ~(ctx.cursorY + h <= maxContentY(pc))

\* A faulty ensureSpace: the page never breaks.
ensureSpaceNever(frames, pc, h) ==
    [stack |-> frames, collector |-> pc, broke |-> FALSE]

ensureSpace(frames, pc, h) ==
    IF NeedsBreak(frames[Len(frames)], pc, h)
    THEN pageBreak(frames, pc)
    ELSE [stack |-> frames, collector |-> pc, broke |-> FALSE]

\* ------------------------------------------------------------------ history

(* What a handler did, recorded from the state it started in: the           *)
(* statement in, the item's height h and Y, whether the page broke, the     *)
(* context's cursor and the page count before, its eligibility and depth,   *)
(* the breaks so far, and floor: the lowest end Y + height of the items     *)
(* eligible contexts have put on the current page (-1: none yet).           *)
Did(op, in, h, y, broke) ==
    [op |-> op, in |-> in, h |-> h, y |-> y, broke |-> broke,
     cursor0 |-> Top.cursorY, pages0 |-> Len(collector.accs),
     eligible |-> Top.allowPageBreak, depth |-> Depth,
     breaks |-> last.breaks + (IF broke THEN 1 ELSE 0),
     floor |-> IF broke THEN y + h
               ELSE IF op \in {"text", "image", "table"} /\ Top.allowPageBreak
                       /\ y + h > last.floor
               THEN y + h
               ELSE last.floor]

NoInput == [hasBlock |-> TRUE]

NoOp == [op |-> "none", in |-> NoInput, h |-> 0, y |-> 0, broke |-> FALSE, cursor0 |-> 0,
         pages0 |-> 0, eligible |-> FALSE, depth |-> 0, breaks |-> 0,
         floor |-> 0 - 1]

StylesUnchanged == UNCHANGED <<doc, todo, dfsStack, visiting, resolved>>

\* A faulty failure: the pages laid out so far are returned with the error.
FailWithPages(rec, msg) ==
    /\ phase' = "done"
    /\ result' = ResultOf(allPages(collector))
    /\ err' = msg
    /\ last' = rec
    /\ UNCHANGED <<collector, stack>>

\* An error returned by a handler goes up through every processBlock and
\* handler on the call stack, buildPages and Build: no Result.
Fail(rec, msg) ==
    /\ phase' = "done"
    /\ result' = NoResult
    /\ err' = msg
    /\ last' = rec
    /\ UNCHANGED <<collector, stack>>

Running == phase = "body" /\ stmts < MaxStmts

\* ---------------------------------------------------------------- firstPage

(* The sections of a document: the one the document record spells out       *)
(* (hasPage: section.Page is not nil), then the sections of doc.later.      *)
Sections(d) ==
    <<[hasPage |-> d.hasPage, size |-> d.size, params |-> d.params,
       hasBlock |-> d.hasBlock, header |-> d.header, footer |-> d.footer]>>
    \o d.later

\* A section that is no page section, and firstPage's nil.
NoPageSection ==
    [hasPage |-> FALSE, size |-> "", params |-> <<>>, hasBlock |-> FALSE,
     header |-> [present |-> FALSE, hasBlock |-> FALSE, attrs |-> NoAttrs, items |-> <<>>],
     footer |-> [present |-> FALSE, hasBlock |-> FALSE, attrs |-> NoAttrs, items |-> <<>>]]

\* firstPage's loop from section i on.
RECURSIVE FirstPageFrom(_, _)
FirstPageFrom(sections, i) ==
    IF i > Len(sections) THEN NoPageSection
    ELSE IF sections[i].hasPage THEN sections[i]
    ELSE FirstPageFrom(sections, i + 1)

\* A faulty choice: the last section of the document.
firstPageLast(d) == Sections(d)[Len(Sections(d))]

firstPage(d) == FirstPageFrom(Sections(d), 1)

\* --------------------------------------------------------------- buildPages

(* Build after collectResources: firstPage, then buildPages up to the       *)
(* creation of the root context.                                            *)
BuildPages ==
    /\ phase = "pages"
    /\ \E pageSection \in {firstPage(doc)} :
       \E size \in {resolvePageSize(pageSection.size, pageSection.params)},
          margin \in {resolveMargin(pageSection.params)} :
       \E hd \in {IF pageSection.header.present
                  THEN buildHeaderFooter(pageSection.header, size.width, size.height,
                                         margin, "header")
                  ELSE [ok |-> TRUE, hf |-> NoHeaderFooter]},
          ft \in {IF pageSection.footer.present
                  THEN buildHeaderFooter(pageSection.footer, size.width, size.height,
                                         margin, "footer")
                  ELSE [ok |-> TRUE, hf |-> NoHeaderFooter]} :
       \E pc \in {[newPageCollector(size.width, size.height, margin)
                     EXCEPT !.header = hd.hf, !.footer = ft.hf]} :
          IF ~pageSection.hasPage
          THEN Fail([NoOp EXCEPT !.op = "build"], "no page section")
          ELSE IF ~size.ok THEN Fail([NoOp EXCEPT !.op = "build"], "unknown page size")
          ELSE IF ~pageSection.hasBlock
          THEN Fail([NoOp EXCEPT !.op = "build"], "page without block")
          ELSE IF ~hd.ok \/ ~ft.ok THEN Fail([NoOp EXCEPT !.op = "build"], "typesetter")
          ELSE /\ collector' = pc
               /\ stack' = <<Ctx("root", margin.Left, contentTop(pc),
                                 size.width - margin.Left - margin.Right,
                                 contentTop(pc), TRUE, "", "anywhere", 0, 1)
                             @@ [args |-> <<>>]>>
               /\ phase' = "body"
               /\ last' = [NoOp EXCEPT !.op = "build"]
               /\ UNCHANGED <<result, err>>
    /\ UNCHANGED stmts
    /\ StylesUnchanged

\* ------------------------------------------------------- flow and absolute

alignOffset(container, width, align) ==
    IF container <= width THEN 0
    ELSE CASE align \in {"center", "middle"} -> (container - width) \div 2
           [] align \in {"right", "end"} -> container - width
           [] OTHER -> 0

\* The width handleFlow gives the child; inferred is inferFlowWidth's
\* answer for the flow's block.
FlowWidth(attrs, parent, inferred) ==
    LET v == Attr(attrs, "width")
        w == parseDimension(v, parent.width)
    IN IF v.kind # "empty"
       THEN IF w > 0 /\ w <= parent.width THEN w ELSE parent.width
       ELSE IF AttrWord(attrs, "align") \in {"center", "right", "end"} /\ inferred > 0
            THEN Min(inferred, parent.width)
            ELSE parent.width

\* A flow statement: [hasBlock, args, inferred].
FlowInputs ==
    { [hasBlock |-> TRUE, args |-> <<>>, inferred |-> 0],
      [hasBlock |-> TRUE,
       args |-> <<Word("align"), Word("center"), Word("wrap"), Word("nowrap")>>,
       inferred |-> Mm(50)],
      [hasBlock |-> FALSE, args |-> <<>>, inferred |-> 0] }

\* A faulty child: it starts at the top of its parent, not at its cursor.
FlowChildAtBase(parent, attrs, inferred, pages) ==
    Ctx("flow",
        parent.baseX + alignOffset(parent.width, FlowWidth(attrs, parent, inferred),
                                   AttrWord(attrs, "align")),
        parent.baseY, FlowWidth(attrs, parent, inferred), parent.baseY,
        parent.allowPageBreak, NormalizeAlign(AttrWord(attrs, "align")),
        IF Attr(attrs, "wrap").kind # "empty"
        THEN normalizeWrap(AttrWord(attrs, "wrap"))
        ELSE parent.textWrap,
        parent.cursorY, pages)

\* The child context handleFlow makes.
FlowChild(parent, attrs, inferred, pages) ==
    Ctx("flow",
        parent.baseX + alignOffset(parent.width, FlowWidth(attrs, parent, inferred),
                                   AttrWord(attrs, "align")),
        parent.cursorY, FlowWidth(attrs, parent, inferred), parent.cursorY,
        parent.allowPageBreak, NormalizeAlign(AttrWord(attrs, "align")),
        IF Attr(attrs, "wrap").kind # "empty"
        THEN normalizeWrap(AttrWord(attrs, "wrap"))
        ELSE parent.textWrap,
        parent.cursorY, pages)

\* handleFlow up to the recursive processBlock.
Flow ==
    /\ Running
    /\ \E stmt \in FlowInputs :
       \E in \in {Parsed(stmt, FALSE)} :
         IF ~in.hasBlock
         THEN Fail(Did("flow", in, 0, 0, FALSE), "flow without block")
         ELSE /\ stack' = Append(stack,
                     FlowChild(Top, mergeStyleAttributes(in.style, in.attrs, resolved),
                               in.inferred, Len(collector.accs)) @@ [args |-> in.args])
              /\ last' = Did("flow", in, 0, 0, FALSE)
              /\ UNCHANGED <<phase, collector, result, err>>
    /\ stmts' = stmts + 1
    /\ StylesUnchanged

\* A faulty return: the parent's cursor takes the child's without the
\* spacing between blocks.
EndFlowNoSpacing ==
    /\ phase = "body"
    /\ Depth > 1
    /\ Top.kind = "flow"
    /\ LET child == Top
           parent == stack[Depth - 1]
           rest == SubSeq(stack, 1, Depth - 1)
       IN /\ stack' = IF child.cursorY > parent.cursorY
                      THEN [rest EXCEPT ![Depth - 1].cursorY = child.cursorY]
                      ELSE rest
          /\ last' = Did("endflow", NoInput, 0, 0, FALSE)
    /\ UNCHANGED <<phase, collector, stmts, result, err>>
    /\ StylesUnchanged

\* handleFlow after processBlock returned: the parent's cursor moves past
\* the child.
EndFlow ==
    /\ phase = "body"
    /\ Depth > 1
    /\ Top.kind = "flow"
    /\ LET child == Top
           parent == stack[Depth - 1]
           rest == SubSeq(stack, 1, Depth - 1)
       IN /\ stack' = IF child.cursorY > parent.cursorY
                      THEN [rest EXCEPT ![Depth - 1].cursorY = child.cursorY + blockSpacing]
                      ELSE rest
          /\ last' = Did("endflow", NoInput, 0, 0, FALSE)
    /\ UNCHANGED <<phase, collector, stmts, result, err>>
    /\ StylesUnchanged

\* An absolute statement: [hasBlock, args].
AbsoluteInputs ==
    { [hasBlock |-> TRUE,
       args |-> <<Word("x"), Tok(10, "mm"), Word("y"), Tok(100, "mm")>>],
      [hasBlock |-> FALSE, args |-> <<>>] }

\* A faulty child: it inherits the parent's page-break eligibility.
AbsoluteChildBreaking(parent, attrs, pages) ==
    LET w == parseDimension(Attr(attrs, "width"), parent.width)
        width == IF w > 0 THEN w ELSE parent.width
        offsetX == parseDimension(Attr(attrs, "x"), parent.width)
        offsetY == parseDimension(Attr(attrs, "y"), parent.width)
    IN Ctx("absolute", parent.baseX + offsetX, parent.baseY + offsetY, width,
           parent.baseY + offsetY, parent.allowPageBreak, "", "", parent.cursorY, pages)

\* The child context handleAbsolute makes.
AbsoluteChild(parent, attrs, pages) ==
    LET w == parseDimension(Attr(attrs, "width"), parent.width)
        width == IF w > 0 THEN w ELSE parent.width
        offsetX == parseDimension(Attr(attrs, "x"), parent.width)
        offsetY == parseDimension(Attr(attrs, "y"), parent.width)
    IN Ctx("absolute", parent.baseX + offsetX, parent.baseY + offsetY, width,
           parent.baseY + offsetY, FALSE, "", "", parent.cursorY, pages)

\* handleAbsolute up to the recursive processBlock.
Absolute ==
    /\ Running
    /\ \E stmt \in AbsoluteInputs :
       \E in \in {Parsed(stmt, FALSE)} :
         IF ~in.hasBlock
         THEN Fail(Did("absolute", in, 0, 0, FALSE), "absolute without block")
         ELSE /\ stack' = Append(stack,
                     AbsoluteChild(Top, mergeStyleAttributes(in.style, in.attrs, resolved),
                                   Len(collector.accs)) @@ [args |-> in.args])
              /\ last' = Did("absolute", in, 0, 0, FALSE)
              /\ UNCHANGED <<phase, collector, result, err>>
    /\ stmts' = stmts + 1
    /\ StylesUnchanged

\* handleAbsolute returns what processBlock returned: nothing else happens.
EndAbsolute ==
    /\ phase = "body"
    /\ Depth > 1
    /\ Top.kind = "absolute"
    /\ stack' = SubSeq(stack, 1, Depth - 1)
    /\ last' = [Did("endabsolute", NoInput, 0, 0, FALSE)
                   EXCEPT !.cursor0 = Top.enterCursor, !.pages0 = Top.enterPages]
    /\ UNCHANGED <<phase, collector, stmts, result, err>>
    /\ StylesUnchanged

\* ------------------------------------------------------- text and image

Line5 == TLine(Mm(5), 0, Mm(30))

\* Answers of the Typesetter: nothing, lines without heights and gaps (and
\* a gap on the first line), lines that fill more than half of the content
\* area, and a line taller than a page.
TsChoices ==
    { TsLines(<<>>),
      TsLines(<<TLine(0, Mm(7), Mm(30)), TLine(0 - Mm(1), 0 - Mm(2), Mm(10)), Line5>>),
      TsLines(<<TLine(Mm(30), 0, Mm(30)), TLine(Mm(30), Mm(2), Mm(30))>>),
      TsLines(<<TLine(Mm(300), Mm(1), Mm(30))>>) }

\* The text "Hello, ${user.name}!".
HelloText == <<"Hello,", " ", "$", "{", "user", ".", "name", "}", "!">>

\* A text statement: [hasBlock, args, content, ts].
TextStmt(args, content, ts) ==
    [hasBlock |-> TRUE, args |-> args, content |-> content, ts |-> ts]

TextInputs ==
    { TextStmt(<<>>, HelloText, t) : t \in TsChoices }
    \cup
    { TextStmt(<<Word("B"), Word("size"), Tok(10, "mm"), Word("line-height"), Tok(4, "mm"),
                 Word("wrap"), Word("break-word")>>,
               <<"t">>, TsLines(<<Line5, TLine(0, 0, Mm(30))>>)),
      TextStmt(<<Word("B"), Word("align"), Word("end")>>,
               <<"t">>, TsLines(<<Line5, TLine(0, 0, Mm(30))>>)),
      TextStmt(<<Word("align"), Word("right")>>, <<"t">>, TsLines(<<Line5>>)),
      TextStmt(<<>>, <<"t">>, TsError),
      TextStmt(<<>>, <<>>, TsLines(<<>>)),
      [TextStmt(<<>>, <<>>, TsLines(<<>>)) EXCEPT !.hasBlock = FALSE] }

\* handleText's attributes: the style's, the inline ones, and the flow's
\* alignment when the text has none.
TextAttrs(in, ctx) ==
    IF Attr(mergeStyleAttributes(in.style, in.attrs, resolved), "align").kind = "empty"
       /\ ctx.textAlign # ""
    THEN Overlay(mergeStyleAttributes(in.style, in.attrs, resolved),
                 [align |-> Word(ctx.textAlign)])
    ELSE mergeStyleAttributes(in.style, in.attrs, resolved)

EffectiveWrap(attrs, ctx) ==
    IF Attr(attrs, "wrap").kind # "empty"
    THEN normalizeWrap(AttrWord(attrs, "wrap"))
    ELSE ctx.textWrap

handleText ==
    /\ Running
    /\ \E stmt \in TextInputs :
       \E in \in {Parsed(stmt, TRUE)} :
       \E attrs \in {TextAttrs(in, Top)} :
       \E c \in {composeTextBox(in.style, attrs, in.content, Top.baseX, Top.cursorY,
                                Top.width, resolved, in.ts, EffectiveWrap(attrs, Top))} :
          IF ~in.hasBlock THEN Fail(Did("text", in, 0, 0, FALSE), "text without block")
          ELSE IF in.content = <<>> THEN Fail(Did("text", in, 0, 0, FALSE), "text without content")
          ELSE IF ~c.ok THEN Fail(Did("text", in, 0, 0, FALSE), "typesetter")
          ELSE \E sp \in {ensureSpace(stack, collector, c.tb.Height)} :
               \E tb \in {[c.tb EXCEPT !.X = sp.stack[Depth].baseX,
                                       !.Y = sp.stack[Depth].cursorY]} :
                 /\ collector' = AppendTo(sp.collector, "texts", tb)
                 /\ stack' = [sp.stack EXCEPT
                                ![Depth].cursorY = tb.Y + tb.Height + blockSpacing]
                 /\ last' = Did("text", in, tb.Height, tb.Y, sp.broke)
                 /\ UNCHANGED <<phase, result, err>>
    /\ stmts' = stmts + 1
    /\ StylesUnchanged

\* An image statement: whether it names an image at all, the size its image
\* resource declares (0: none) and its attributes.
ImageInputs ==
    { [named |-> TRUE, style |-> "", resWidth |-> 0, resHeight |-> 0, attrs |-> NoAttrs],
      [named |-> TRUE, style |-> "", resWidth |-> Mm(40), resHeight |-> 0,
       attrs |-> [height |-> Tok(60, "mm")]],
      [named |-> FALSE, style |-> "", resWidth |-> 0, resHeight |-> 0,
       attrs |-> NoAttrs] }

handleImage ==
    /\ Running
    /\ \E in \in ImageInputs :
       \E sz \in {ImageSize(in, mergeStyleAttributes(in.style, in.attrs, resolved),
                              Top.width, IF Top.width > 0 THEN Top.width ELSE Mm(40))} :
       \E sp \in {ensureSpace(stack, collector, sz.Height)} :
       \E img \in {[X |-> Top.baseX, Y |-> sp.stack[Depth].cursorY,
                    Width |-> sz.Width, Height |-> sz.Height]} :
          IF ~in.named THEN Fail(Did("image", in, 0, 0, FALSE), "image without source")
          ELSE /\ collector' = AppendTo(sp.collector, "images", img)
               /\ stack' = [sp.stack EXCEPT
                              ![Depth].cursorY = img.Y + img.Height + blockSpacing]
               /\ last' = Did("image", in, sz.Height, img.Y, sp.broke)
               /\ UNCHANGED <<phase, result, err>>
    /\ stmts' = stmts + 1
    /\ StylesUnchanged

\* ------------------------------------------------------------------ tables

\* A composed cell joins the row: st is [ok, cells, colIdx, maxHeight].
AddCell(st, c) ==
    IF ~c.ok THEN [st EXCEPT !.ok = FALSE]
    ELSE [st EXCEPT !.cells = Append(st.cells, [Text |-> c.tb]),
                    !.maxHeight = Max(st.maxHeight, c.tb.Height),
                    !.colIdx = st.colIdx + 1]

\* The width of one cell's text for a column of colWidth.
CellWidth(colWidth) ==
    IF colWidth - 2 * cellPadding <= 0 THEN colWidth ELSE colWidth - 2 * cellPadding

ColumnWidth(tableWidth, columnHint) ==
    tableWidth \div (IF columnHint = 0 THEN 1 ELSE columnHint)

\* One cell statement of buildTableRow's loop; a cell without text is
\* passed over.
RowCell(cell, st, columnHint, tableWidth, baseX, baseY) ==
    IF cell.content = <<>> THEN st
    ELSE AddCell(st,
            composeTextBox(cell.style,
                mergeStyleAttributes(cell.style, cell.attrs, resolved), cell.content,
                baseX + st.colIdx * ColumnWidth(tableWidth, columnHint) + cellPadding,
                baseY + cellPadding,
                CellWidth(ColumnWidth(tableWidth, columnHint)), resolved, cell.ts,
                normalizeWrap(AttrWord(
                    mergeStyleAttributes(cell.style, cell.attrs, resolved), "wrap"))))

RECURSIVE RowCells(_, _, _, _, _, _, _)
RowCells(cells, i, st, columnHint, tableWidth, baseX, baseY) ==
    IF i > Len(cells) \/ ~st.ok THEN st
    ELSE RowCells(cells, i + 1,
                  RowCell(cells[i], st, columnHint, tableWidth, baseX, baseY),
                  columnHint, tableWidth, baseX, baseY)

\* buildTableRow after the loop.
RowResult(cmd, st, columnHint, header) ==
    IF ~st.ok \/ st.colIdx = 0
    THEN [ok |-> FALSE,
          row |-> [Y |-> 0, Height |-> 0, IsHeader |-> header, Cells |-> <<>>],
          columns |-> columnHint]
    ELSE [ok |-> TRUE,
          row |-> [Y |-> 0, Height |-> st.maxHeight + 2 * cellPadding,
                   IsHeader |-> header, Cells |-> st.cells],
          columns |-> st.colIdx]

\* buildTableRow: [ok, row, columns]; the height it also returns is
\* row.Height.
buildTableRow(cmd, columnHint, tableWidth, baseX, baseY, header) ==
    IF ~cmd.hasBlock
    THEN [ok |-> FALSE,
          row |-> [Y |-> 0, Height |-> 0, IsHeader |-> header, Cells |-> <<>>],
          columns |-> 0]
    ELSE RowResult(cmd,
             RowCells(cmd.cells, 1,
                      [ok |-> TRUE, cells |-> <<>>, colIdx |-> 0, maxHeight |-> 0],
                      columnHint, tableWidth, baseX, baseY),
             columnHint, header)

\* A faulty step: any first row, header or not, fixes the column count.
AddRowCounting(cmd, st, r, rowGap) ==
    IF ~r.ok THEN [st EXCEPT !.ok = FALSE]
    ELSE [st EXCEPT
            !.Rows = Append(st.Rows,
                [r.row EXCEPT !.Y = (st.currentY + r.row.Height + rowGap)
                                    - r.row.Height - rowGap]),
            !.currentY = st.currentY + r.row.Height + rowGap,
            !.colCount = IF st.colCount = 0 THEN r.columns ELSE st.colCount]

\* A built row joins the table: st is [ok, Rows, currentY, colCount].
AddRow(cmd, st, r, rowGap) ==
    IF ~r.ok THEN [st EXCEPT !.ok = FALSE]
    ELSE [st EXCEPT
            !.Rows = Append(st.Rows,
                [r.row EXCEPT !.Y = (st.currentY + r.row.Height + rowGap)
                                    - r.row.Height - rowGap]),
            !.currentY = st.currentY + r.row.Height + rowGap,
            !.colCount = IF cmd.name = "header" /\ st.colCount = 0
                         THEN r.columns ELSE st.colCount]

\* One header or row statement of build's loop.
TableRowStep(cmd, st, width, x, rowGap) ==
    AddRow(cmd, st,
           buildTableRow(cmd, st.colCount, width, x, st.currentY, cmd.name = "header"),
           rowGap)

RECURSIVE TableRows(_, _, _, _, _, _)
TableRows(rows, i, st, width, x, rowGap) ==
    IF i > Len(rows) \/ ~st.ok THEN st
    ELSE TableRows(rows, i + 1, TableRowStep(rows[i], st, width, x, rowGap),
                   width, x, rowGap)

TableWidth(attrs, ctx) ==
    LET w == parseDimension(Attr(attrs, "width"), ctx.width)
    IN IF w > 0 THEN w ELSE ctx.width

TableRowGap(attrs) ==
    LET v == IF Attr(attrs, "row-gap").kind # "empty" THEN Attr(attrs, "row-gap")
             ELSE Attr(attrs, "rowGap")
    IN IF v.kind # "empty" /\ parseLength(v) >= 0 THEN parseLength(v)
       ELSE defaultTableRowGap

\* strconv.Atoi of the columns attribute, kept when positive.
TableColumns(attrs) ==
    LET v == Attr(attrs, "columns")
    IN IF v.kind = "num" /\ v.unit = "" /\ v.num > 0 THEN v.num ELSE 0

\* The column widths build computes after its loop.
EqualColumns(width, colCount) == [i \in 1..colCount |-> width \div colCount]

\* A faulty end: the gap after the last row is counted.
TableResultTrailingGap(st, x, baseY, width, rowGap) ==
    IF ~st.ok \/ st.colCount = 0
    THEN [ok |-> FALSE, table |-> <<>>, height |-> 0]
    ELSE [ok |-> TRUE,
          table |-> [X |-> x, Y |-> baseY, Width |-> width, RowGap |-> rowGap,
                     ColumnWidths |-> EqualColumns(width, st.colCount),
                     Rows |-> st.Rows],
          height |-> st.currentY - baseY]

\* build after the loop: [ok, table, height].
TableResult(st, x, baseY, width, rowGap) ==
    IF ~st.ok \/ st.colCount = 0
    THEN [ok |-> FALSE, table |-> <<>>, height |-> 0]
    ELSE [ok |-> TRUE,
          table |-> [X |-> x, Y |-> baseY, Width |-> width, RowGap |-> rowGap,
                     ColumnWidths |-> EqualColumns(width, st.colCount),
                     Rows |-> st.Rows],
          height |-> (IF Len(st.Rows) > 0 THEN st.currentY - rowGap ELSE st.currentY)
                     - baseY]

\* The closure build of handleTable, for the context as it is now.
build(cmd, attrs, ctx, baseY) ==
    TableResult(
        TableRows(cmd.rows, 1,
                  [ok |-> TRUE, Rows |-> <<>>, currentY |-> baseY,
                   colCount |-> TableColumns(attrs)],
                  TableWidth(attrs, ctx), ctx.baseX, TableRowGap(attrs)),
        ctx.baseX, baseY, TableWidth(attrs, ctx), TableRowGap(attrs))

Cell(ts) == [style |-> "", attrs |-> NoAttrs, content |-> <<"c">>, ts |-> ts]
EmptyCell == [style |-> "", attrs |-> NoAttrs, content |-> <<>>, ts |-> TsLines(<<>>)]
Row(name, cells) == [name |-> name, hasBlock |-> TRUE, cells |-> cells]

SmallTs == TsLines(<<Line5>>)
BigTs == TsLines(<<TLine(Mm(30), 0, Mm(30)), TLine(Mm(30), Mm(2), Mm(30))>>)

\* A table statement: [hasBlock, style, attrs, rows].
TableInputs ==
    { [hasBlock |-> TRUE, style |-> "", attrs |-> NoAttrs,
       rows |-> << Row("header", <<Cell(SmallTs), Cell(TsLines(<<>>)), Cell(SmallTs)>>),
                   Row("row", <<Cell(SmallTs), EmptyCell, Cell(SmallTs)>>) >>],
      [hasBlock |-> TRUE, style |-> "",
       attrs |-> ("columns" :> Tok(2, "")) @@ ("row-gap" :> Tok(2, "mm")),
       rows |-> << Row("row", <<Cell(BigTs), Cell(SmallTs)>>),
                   Row("row", <<EmptyCell, Cell(SmallTs)>>) >>],
      [hasBlock |-> TRUE, style |-> "", attrs |-> [width |-> Tok(50, "%")],
       rows |-> << Row("row", <<Cell(SmallTs), Cell(SmallTs)>>),
                   Row("header", <<Cell(SmallTs), Cell(SmallTs), Cell(SmallTs)>>) >>],
      [hasBlock |-> TRUE, style |-> "", attrs |-> NoAttrs,
       rows |-> << Row("header", <<Cell(SmallTs), Cell(SmallTs)>>),
                   Row("header", <<Cell(SmallTs), Cell(SmallTs), Cell(SmallTs)>>) >>],
      [hasBlock |-> TRUE, style |-> "", attrs |-> NoAttrs,
       rows |-> << Row("row", <<Cell(SmallTs), Cell(SmallTs)>>) >>],
      [hasBlock |-> TRUE, style |-> "", attrs |-> [columns |-> Tok(2, "")],
       rows |-> << Row("header", <<Cell(SmallTs), Cell(SmallTs)>>),
                   Row("row", <<EmptyCell, EmptyCell>>) >>],
      [hasBlock |-> FALSE, style |-> "", attrs |-> NoAttrs, rows |-> <<>>] }

\* A faulty choice: the table built before the page break is kept.
RebuiltNever(in, attrs, sp, first) == first

\* The table handleTable appends: after a page break, the one built again
\* at the context's new cursor.
Rebuilt(in, attrs, sp, first) ==
    IF sp.broke
    THEN build(in, attrs, sp.stack[Len(sp.stack)], sp.stack[Len(sp.stack)].cursorY)
    ELSE first

handleTable ==
    /\ Running
    /\ \E in \in TableInputs :
       \E attrs \in {mergeStyleAttributes(in.style, in.attrs, resolved)} :
       \E first \in {IF in.hasBlock THEN build(in, attrs, Top, Top.cursorY)
                     ELSE [ok |-> FALSE, table |-> <<>>, height |-> 0]} :
          IF ~in.hasBlock THEN Fail(Did("table", in, 0, 0, FALSE), "table without block")
          ELSE IF ~first.ok THEN Fail(Did("table", in, 0, 0, FALSE), "table without cells")
          ELSE \E sp \in {IF /\ Top.allowPageBreak
                             /\ Top.cursorY + first.height > maxContentY(collector)
                          THEN pageBreak(stack, collector)
                          ELSE [stack |-> stack, collector |-> collector,
                                broke |-> FALSE]} :
               \E b \in {Rebuilt(in, attrs, sp, first)} :
                 /\ collector' = AppendTo(sp.collector, "tables", b.table)
                 /\ stack' = [sp.stack EXCEPT
                                ![Depth].cursorY = sp.stack[Depth].cursorY + b.height
                                                   + blockSpacing]
                 /\ last' = Did("table", in, b.height, b.table.Y, sp.broke)
                 /\ UNCHANGED <<phase, result, err>>
    /\ stmts' = stmts + 1
    /\ StylesUnchanged

\* --------------------------------------------------------- other statements

\* A line, rect or circle statement.
ShapeInputs ==
    { [name |-> "rect",
       attrs |-> [x |-> Tok(1, "cm"), y |-> Tok(1, "cm"), width |-> Tok(1, "in"),
                  height |-> Tok(10, "pt")]],
      [name |-> "line", attrs |-> [x |-> Tok(5, "mm"), length |-> Tok(20, "mm"),
                                   dir |-> Word("v")]],
      [name |-> "circle", attrs |-> [cx |-> Tok(5, "mm")]] }

\* The default branch of processBlock for a shape command.
Shape ==
    /\ Running
    /\ \E in \in ShapeInputs :
         LET p == CASE in.name = "line" -> parseLineShape(in.attrs)
                    [] in.name = "rect" -> parseRectShape(in.attrs)
                    [] OTHER -> parseCircleShape(in.attrs)
             list == CASE in.name = "line" -> "lines"
                       [] in.name = "rect" -> "rects"
                       [] OTHER -> "circles"
         IN /\ collector' = IF p.ok THEN AppendTo(collector, list, p.shape) ELSE collector
            /\ last' = Did(in.name, in, 0, 0, FALSE)
    /\ stmts' = stmts + 1
    /\ UNCHANGED <<phase, stack, result, err>>
    /\ StylesUnchanged

\* A statement that is no command, or a command processBlock does not know
\* (header and footer among them): skipped.
Skip ==
    /\ Running
    /\ stmts' = stmts + 1
    /\ last' = Did("skip", NoInput, 0, 0, FALSE)
    /\ UNCHANGED <<phase, collector, stack, result, err>>
    /\ StylesUnchanged

\* The page block is walked to its end: buildPages returns the pages and
\* Build the Result.
Finish ==
    /\ phase = "body"
    /\ Depth = 1
    /\ phase' = "done"
    /\ result' = ResultOf(allPages(collector))
    /\ err' = NoErr
    /\ last' = Did("finish", NoInput, 0, 0, FALSE)
    /\ UNCHANGED <<collector, stack, stmts>>
    /\ StylesUnchanged

\* --------------------------------------------------------------- documents

Style(extends, props) == [Extends |-> extends, Props |-> props]

NoStyles == [n \in {} |-> Style("", NoAttrs)]

NoDef == [present |-> FALSE, hasBlock |-> FALSE, attrs |-> NoAttrs, items |-> <<>>]

HfText(attrs, ts) ==
    [cmd |-> "text", style |-> "", attrs |-> attrs, content |-> <<"h">>, ts |-> ts]
HfShape(name, attrs) == [cmd |-> name, attrs |-> attrs]
HfImage(attrs) ==
    [cmd |-> "image", style |-> "", resWidth |-> 0, resHeight |-> 0, attrs |-> attrs]

Document(styles, size, params, header, footer) ==
    [isNil |-> FALSE, typesetter |-> TRUE, styles |-> styles, hasPage |-> TRUE,
     size |-> size, params |-> params, hasBlock |-> TRUE, header |-> header,
     footer |-> footer, data |-> NilV, later |-> <<>>]

BandedHeader ==
    [present |-> TRUE, hasBlock |-> TRUE, attrs |-> [height |-> Tok(40, "mm")],
     items |-> << HfText([align |-> Word("end")], TsLines(<<TLine(0, Mm(3), Mm(20)), Line5>>)),
                  HfImage([width |-> Tok(20, "mm")]),
                  HfShape("rect", [width |-> Tok(100, "mm"), height |-> Tok(1, "mm")]),
                  HfShape("circle", [cx |-> Tok(5, "mm")]) >>]

BandedFooter ==
    [present |-> TRUE, hasBlock |-> TRUE, attrs |-> [height |-> Tok(5, "cm")],
     items |-> << HfText(NoAttrs, TsLines(<<>>)) >>]

ThinFooter ==
    [present |-> TRUE, hasBlock |-> TRUE, attrs |-> NoAttrs,
     items |-> << HfText(NoAttrs, SmallTs) >>]

FailingHeader ==
    [present |-> TRUE, hasBlock |-> TRUE, attrs |-> NoAttrs,
     items |-> << HfText(NoAttrs, TsError) >>]

ExampleStyles ==
    [n \in {"A", "B"} |->
        IF n = "A" THEN Style("", [size |-> Tok(10, "pt")])
        ELSE Style("A", [color |-> Word("#000")])]

\* The data {"user": {"name": "Papyrus"}}.
UserData == MapV("user" :> MapV("name" :> StrV("Papyrus")))

\* Later sections: a page section no build would get through (unknown size,
\* no block, a header whose text cannot be typeset), and a sound one.
UnbuildableSection ==
    [hasPage |-> TRUE, size |-> "B5", params |-> <<Word("margin"), Tok(80, "mm")>>,
     hasBlock |-> FALSE, header |-> FailingHeader, footer |-> BandedHeader]

SoundSection ==
    [hasPage |-> TRUE, size |-> "A4", params |-> <<>>, hasBlock |-> TRUE,
     header |-> NoDef, footer |-> NoDef]

PlainDoc == Document(ExampleStyles, "A5", <<Word("landscape")>>, NoDef, ThinFooter)

BandedDoc ==
    [Document(NoStyles, "A5",
              <<Word("portrait"), Word("margin"), Tok(10, "mm"), Tok(15, "mm")>>,
              BandedHeader, BandedFooter)
        EXCEPT !.data = UserData, !.later = <<NoPageSection, UnbuildableSection>>]

\* The documents of the layout runs.
Docs ==
    { PlainDoc, BandedDoc,
      [PlainDoc EXCEPT !.isNil = TRUE],
      [PlainDoc EXCEPT !.typesetter = FALSE],
      [PlainDoc EXCEPT !.hasPage = FALSE, !.later = <<NoPageSection>>],
      [PlainDoc EXCEPT !.size = "B5", !.later = <<SoundSection>>],
      [PlainDoc EXCEPT !.hasBlock = FALSE, !.later = <<SoundSection>>],
      [PlainDoc EXCEPT !.header = FailingHeader],
      [PlainDoc EXCEPT !.styles = [n \in {"A"} |-> Style("A", NoAttrs)]],
      [PlainDoc EXCEPT !.styles = [n \in {"A"} |-> Style("Z", NoAttrs)]] }

InitWith(d) ==
    /\ doc = d
    /\ phase = "start"
    /\ todo = DOMAIN d.styles
    /\ dfsStack = <<>>
    /\ visiting = {}
    /\ resolved = NoStyles
    /\ collector = newPageCollector(0, 0, Margin(0, 0, 0, 0))
    /\ stack = <<>>
    /\ stmts = 0
    /\ last = NoOp
    /\ result = NoResult
    /\ err = NoErr

Init == \E d \in Docs : InitWith(d)

NextResources == BuildStart \/ NextStyles

NextBody ==
    \/ BuildPages
    \/ Flow \/ EndFlow
    \/ Absolute \/ EndAbsolute
    \/ handleText \/ handleImage \/ handleTable
    \/ Shape \/ Skip
    \/ Finish

Next == NextResources \/ NextBody

Spec == Init /\ [][Next]_vars

\* ---------------------------------------------------- style resolution runs

StyleNames == {"A", "B", "C"}

OwnProps(n) ==
    CASE n = "A" -> [size |-> Tok(10, "pt")]
      [] n = "B" -> [color |-> Word("#000")]
      [] OTHER -> [size |-> Tok(12, "pt"), color |-> Word("#fff")]

(* Documents whose resources declare some of the styles A, B and C, each    *)
(* extending nothing, one of the three (itself included, declared or not)  *)
(* or Z, which no document declares.                                        *)
StyleDocs ==
    UNION { { [PlainDoc EXCEPT !.styles = [n \in names |-> Style(e[n], OwnProps(n))]] :
                e \in [names -> {""} \cup StyleNames \cup {"Z"}] } :
            names \in (SUBSET StyleNames) \ {{}} }

InitStyles == \E d \in StyleDocs : InitWith(d)

(* Build up to the end of collectResources.  resolveStyles is sequential    *)
(* code without waiting: a step that can be taken is taken.                 *)
SpecStyles == InitStyles /\ [][NextResources]_vars /\ WF_vars(NextResources)

\* ------------------------------------------------ runs of the data binding

\* Steps of a path a placeholder may be written with.
MaxSteps == 3

\* A path is written from steps: a key, or an index in brackets.
KeyStep(k) == [kind |-> "key", key |-> k, idx |-> <<>>]
IdxStep(tokens) == [kind |-> "idx", key |-> "", idx |-> tokens]

StepChoices ==
    { KeyStep("user"), KeyStep("name"), KeyStep("zz"),
      IdxStep(<<"0">>), IdxStep(<<"1">>), IdxStep(<<"5">>), IdxStep(<<"-", "1">>),
      IdxStep(<<"x">>) }

PathChoices == UNION { [1..k -> StepChoices] : k \in 1..MaxSteps }

\* The path as text: keys joined by dots, an index right after what it indexes.
RECURSIVE PathText(_, _)
PathText(steps, i) ==
    IF i > Len(steps) THEN <<>>
    ELSE (IF steps[i].kind = "idx" THEN <<"[">> \o steps[i].idx \o <<"]">>
          ELSE IF i = 1 THEN <<steps[i].key>>
          ELSE <<".", steps[i].key>>)
         \o PathText(steps, i + 1)

Placeholder(steps, pad) == <<"$", "{">> \o pad \o PathText(steps, 1) \o pad \o <<"}">>

\* A text with two placeholders; lead is the text before the first, and the
\* first may have blanks around its path.
BoundText(lead, first, pad, second) ==
    lead \o Placeholder(first, pad) \o <<",", " ">> \o Placeholder(second, <<>>) \o <<"!">>

DataChoices ==
    { MapV(("user" :> MapV("name" :> StrV("Papyrus")))
           @@ ("name" :> ArrV(<<StrV("a"), MapV("user" :> StrV("u"))>>))),
      ArrV(<<MapV("name" :> StrV("n")), ArrV(<<StrV("deep")>>)>>),
      StrV("scalar"),
      MapV(<<>>) }

InterpolateInputs ==
    { [text |-> BoundText(v.lead, first, v.pad, second), data |-> data,
       lead |-> v.lead, first |-> first, pad |-> v.pad, second |-> second] :
        v \in { [lead |-> <<"Dear", " ">>, pad |-> <<>>],
                [lead |-> <<"}", "$">>, pad |-> <<" ">>] },
        first \in PathChoices,
        second \in { <<KeyStep("user"), KeyStep("name")>>, <<IdxStep(<<"0">>), KeyStep("zz")>> },
        data \in DataChoices }

InitInterpolate ==
    /\ doc \in InterpolateInputs
    /\ phase = "interpolate"
    /\ todo = {}
    /\ dfsStack = <<>>
    /\ visiting = {}
    /\ resolved = NoStyles
    /\ collector = newPageCollector(0, 0, Margin(0, 0, 0, 0))
    /\ stack = <<>>
    /\ stmts = 0
    /\ last = NoOp
    /\ result = <<>>
    /\ err = NoErr

\* One call of Interpolate; it returns a string and nothing else.
InterpolateText ==
    /\ phase = "interpolate"
    /\ phase' = "interpolated"
    /\ result' = Interpolate(doc.text, doc.data)
    /\ UNCHANGED <<doc, todo, dfsStack, visiting, resolved, collector, stack, stmts,
                   last, err>>

SpecInterpolate == InitInterpolate /\ [][InterpolateText]_vars

\* ------------------------------------------------- runs of resolveMargin

\* Values after the margin keyword a page statement may carry.
MaxMarginVals == 5

MarginValueChoices == { Tok(0, ""), Tok(10, "mm"), Tok(2, "cm"), Tok(1, "in"), Tok(12, "pt") }

\* The parameters of a page statement: what stands before the margin
\* keyword, the values after it, and what follows the values.
MarginInputs ==
    { [params |-> before \o <<Word("margin")>> \o values \o after,
       before |-> before, values |-> values, after |-> after] :
        before \in { <<>>, <<Word("landscape")>> },
        values \in UNION { [1..k -> MarginValueChoices] : k \in 0..MaxMarginVals },
        after \in { <<>>, <<Word("portrait"), Tok(7, "mm")>> } }

InitMargin ==
    /\ doc \in MarginInputs
    /\ phase = "params"
    /\ todo = {}
    /\ dfsStack = <<>>
    /\ visiting = {}
    /\ resolved = NoStyles
    /\ collector = newPageCollector(0, 0, Margin(0, 0, 0, 0))
    /\ stack = <<>>
    /\ stmts = 0
    /\ last = NoOp
    /\ result = Margin(0, 0, 0, 0)
    /\ err = NoErr

\* One call of resolveMargin.
ResolveMargin ==
    /\ phase = "params"
    /\ phase' = "margin"
    /\ result' = resolveMargin(doc.params)
    /\ UNCHANGED <<doc, todo, dfsStack, visiting, resolved, collector, stack, stmts,
                   last, err>>

SpecMargin == InitMargin /\ [][ResolveMargin]_vars

\* --------------------------------------------- runs of greedyWrapTokens

\* Characters of a content to wrap.
MaxChars == 5

\* Contents of letters two and one unit wide, blanks and newlines; width
\* limits of none (0), less than the wide letter, and a few letters.
WrapInputs ==
    { [content |-> content, width |-> width, wrap |-> wrap] :
        content \in UNION { [1..k -> {"a", "i", " ", "\n"}] : k \in 0..MaxChars },
        width \in {0, 1, 3, 4},
        wrap \in {"anywhere", "break-word", "nowrap"} }

InitWrap ==
    /\ doc \in WrapInputs
    /\ phase = "content"
    /\ todo = {}
    /\ dfsStack = <<>>
    /\ visiting = {}
    /\ resolved = NoStyles
    /\ collector = newPageCollector(0, 0, Margin(0, 0, 0, 0))
    /\ stack = <<>>
    /\ stmts = 0
    /\ last = NoOp
    /\ result = <<>>
    /\ err = NoErr

\* One call of greedyWrapTokens.
GreedyWrap ==
    /\ phase = "content"
    /\ phase' = "lines"
    /\ result' = greedyWrapTokens(doc.content, doc.width, doc.wrap)
    /\ UNCHANGED <<doc, todo, dfsStack, visiting, resolved, collector, stack, stmts,
                   last, err>>

SpecWrap == InitWrap /\ [][GreedyWrap]_vars

(* Contents with carriage returns as well, under every policy the default   *)
(* branch of greedyWrapTokens serves (normal among them).                   *)
MaxRunes == 4

RuneInputs ==
    { [content |-> content, width |-> width, wrap |-> wrap] :
        content \in UNION { [1..k -> {"a", "i", " ", "\n", "\r"}] : k \in 0..MaxRunes },
        width \in {0, 1, 3},
        wrap \in {"anywhere", "break-word", "nowrap", "normal"} }

InitRunes ==
    /\ doc \in RuneInputs
    /\ phase = "content"
    /\ todo = {}
    /\ dfsStack = <<>>
    /\ visiting = {}
    /\ resolved = NoStyles
    /\ collector = newPageCollector(0, 0, Margin(0, 0, 0, 0))
    /\ stack = <<>>
    /\ stmts = 0
    /\ last = NoOp
    /\ result = <<>>
    /\ err = NoErr

SpecRunes == InitRunes /\ [][GreedyWrap]_vars

\* ------------------------------------------------- runs of composeTextBox

\* Attributes of a text: a size and a line height, each absent, with a unit,
\* without one, or not positive.
ComposeAttrChoices ==
    { size @@ lh :
        size \in { NoAttrs, [size |-> Tok(10, "pt")], [size |-> Tok(4, "mm")],
                   [size |-> Tok(10, "")], [size |-> Tok(0, "mm")] },
        lh \in { NoAttrs, ("line-height" :> Tok(2, "x")), ("line-height" :> Tok(6, "mm")),
                 ("line-height" :> Tok(5, "")), ("line-height" :> Tok(0, "x")) } }

\* A text composed twice, with Debug.RawUnits off and on.
ComposeInputs ==
    { [attrs |-> attrs, ts |-> ts, data |-> NilV] :
        attrs \in ComposeAttrChoices, ts \in TsChoices \cup {TsError} }

InitCompose ==
    /\ doc \in ComposeInputs
    /\ phase = "text"
    /\ todo = {}
    /\ dfsStack = <<>>
    /\ visiting = {}
    /\ resolved = NoStyles
    /\ collector = newPageCollector(0, 0, Margin(0, 0, 0, 0))
    /\ stack = <<>>
    /\ stmts = 0
    /\ last = NoOp
    /\ result = [plain |-> [ok |-> FALSE, tb |-> <<>>], debug |-> [ok |-> FALSE, tb |-> <<>>]]
    /\ err = NoErr

\* Two calls of composeTextBox that differ in debug.RawUnits only.
ComposeTwice ==
    /\ phase = "text"
    /\ phase' = "composed"
    /\ \E c \in {composeTextBox("", doc.attrs, <<"t">>, Mm(10), Mm(10), Mm(100), resolved,
                                doc.ts, "anywhere")} :
          result' = [plain |-> WithRawUnits(c, mergeStyleAttributes("", doc.attrs, resolved), FALSE),
                     debug |-> WithRawUnits(c, mergeStyleAttributes("", doc.attrs, resolved), TRUE)]
    /\ UNCHANGED <<doc, todo, dfsStack, visiting, resolved, collector, stack, stmts,
                   last, err>>

SpecCompose == InitCompose /\ [][ComposeTwice]_vars

\* --------------------------------------------- runs of the color resources

\* Characters of a color value after its hash sign.
MaxDigits == 8

\* A color resource: a name, and a value of hexadecimal digits and a letter
\* that is none, with or without the hash sign.
ColorInputs ==
    { [name |-> "Accent", value |-> hash \o digits] :
        hash \in {<<>>, <<"#">>},
        digits \in UNION { [1..k -> {"1", "F", "G"}] : k \in 0..MaxDigits } }
    \cup { [name |-> "", value |-> <<"#", "F", "F", "F">>],
           [name |-> "Accent", value |-> <<"#", "0", "a", "F">>] }

InitColor ==
    /\ doc \in ColorInputs
    /\ phase = "resources"
    /\ todo = {}
    /\ dfsStack = <<>>
    /\ visiting = {}
    /\ resolved = NoStyles
    /\ collector = newPageCollector(0, 0, Margin(0, 0, 0, 0))
    /\ stack = <<>>
    /\ stmts = 0
    /\ last = NoOp
    /\ result = <<>>
    /\ err = NoErr

\* collectResources over a document whose one resource is the color.
CollectColors ==
    /\ phase = "resources"
    /\ phase' = "collected"
    /\ result' = CollectColor(<<>>, doc.name, doc.value)
    /\ UNCHANGED <<doc, todo, dfsStack, visiting, resolved, collector, stack, stmts,
                   last, err>>

SpecColor == InitColor /\ [][CollectColors]_vars

\* ------------------------------------------- runs of LineHeightSpec.Resolve

LengthChoices ==
    { Length(0, ""), Length(12, "pt"), Length(6, "mm"), Length(1, "cm"), Length(1, "in") }

\* Line height specs of every kind, the zero value of the type among them,
\* resolved for a font size to millimetres, points or no unit.
ResolveInputs ==
    { [spec |-> LineHeightSpec(kind, tenths, len), fontSize |-> fontSize, target |-> target] :
        kind \in {LineHeightFactor, LineHeightAbsolute, 2},
        tenths \in {0, 12, 20},
        len \in LengthChoices,
        fontSize \in LengthChoices \ {Length(0, "")},
        target \in {"mm", "pt", ""} }

InitResolve ==
    /\ doc \in ResolveInputs
    /\ phase = "spec"
    /\ todo = {}
    /\ dfsStack = <<>>
    /\ visiting = {}
    /\ resolved = NoStyles
    /\ collector = newPageCollector(0, 0, Margin(0, 0, 0, 0))
    /\ stack = <<>>
    /\ stmts = 0
    /\ last = NoOp
    /\ result = 0
    /\ err = NoErr

\* One call of LineHeightSpec.Resolve.
ResolveLineHeightSpec ==
    /\ phase = "spec"
    /\ phase' = "resolved"
    /\ result' = Resolve(doc.spec, doc.fontSize, doc.target)
    /\ UNCHANGED <<doc, todo, dfsStack, visiting, resolved, collector, stack, stmts,
                   last, err>>

SpecResolve == InitResolve /\ [][ResolveLineHeightSpec]_vars

\* ---------------------------------------------- runs of the font resources

\* Font statements of a document.
MaxFonts == 2

\* Documents with up to MaxFonts font statements, one of them without a
\* name, and a text with or without a font attribute and a style name, of
\* fonts the document declares and of one it does not.
FontInputs ==
    { [fonts |-> fonts, style |-> style, font |-> font] :
        fonts \in UNION { [1..k -> { FontResource("", "", ""),
                                      FontResource("Body", "embed:Inter", ""),
                                      FontResource("Title", "builtin:Times-Roman", "") }] :
                          k \in 0..MaxFonts },
        style \in {"", "H1"},
        font \in {"", "Body", "Title", "Mono"} }

InitFonts ==
    /\ doc \in FontInputs
    /\ phase = "resources"
    /\ todo = {}
    /\ dfsStack = <<>>
    /\ visiting = {}
    /\ resolved = NoStyles
    /\ collector = newPageCollector(0, 0, Margin(0, 0, 0, 0))
    /\ stack = <<>>
    /\ stmts = 0
    /\ last = NoOp
    /\ result = [fonts |-> NoFonts, ok |-> FALSE, font |-> FontResource("", "", "")]
    /\ err = NoErr

\* collectResources, then the font lookup of composeTextBox for the text.
ResolveFont ==
    /\ phase = "resources"
    /\ phase' = "font"
    /\ \E r \in resolveFontResource(FontNameOf(doc.style, doc.font), CollectFonts(doc.fonts)) :
          /\ result' = [fonts |-> CollectFonts(doc.fonts), ok |-> r.ok, font |-> r.font]
          /\ err' = IF r.ok THEN NoErr ELSE "font"
    /\ UNCHANGED <<doc, todo, dfsStack, visiting, resolved, collector, stack, stmts, last>>

SpecFonts == InitFonts /\ [][ResolveFont]_vars

\* ------------------------------------------------------ runs of parseLength

\* The largest number of a length.
MaxNumber == 15

\* Numbers with each unit the lexer admits and without one, and a word.
LengthInputs ==
    { Tok(n, u) : n \in 0..MaxNumber, u \in {"", "pt", "mm", "cm", "in", "%", "x"} }
    \cup { Word("auto"), NoTok }

InitLength ==
    /\ doc \in LengthInputs
    /\ phase = "value"
    /\ todo = {}
    /\ dfsStack = <<>>
    /\ visiting = {}
    /\ resolved = NoStyles
    /\ collector = newPageCollector(0, 0, Margin(0, 0, 0, 0))
    /\ stack = <<>>
    /\ stmts = 0
    /\ last = NoOp
    /\ result = 0
    /\ err = NoErr

\* One call of parseLength.
ParseLength ==
    /\ phase = "value"
    /\ phase' = "length"
    /\ result' = parseLength(doc)
    /\ UNCHANGED <<doc, todo, dfsStack, visiting, resolved, collector, stack, stmts,
                   last, err>>

SpecLength == InitLength /\ [][ParseLength]_vars

\* ------------------------------------------------------ runs of handleFlow

\* The root context of an A5 page with the same margin on every side.
RootOf(margin) ==
    Ctx("root", margin.Left, margin.Top,
        resolvePageSize("A5", <<>>).width - margin.Left - margin.Right,
        margin.Top, TRUE, "", "anywhere", 0, 1)

\* A flow in the root context of a page with small margins and with margins
\* wider than half the page; the flow has no width, one that fits, none at
\* all, one too large, and percentages; every alignment; and an inferred
\* width of nothing, less and more than the page.
FlowChildInputs ==
    { [parent |-> RootOf(resolveMargin(<<Word("margin"), Tok(m, "mm")>>)),
       attrs |-> w @@ a, inferred |-> inferred] :
        m \in {10, 80},
        w \in { NoAttrs, [width |-> Tok(50, "mm")], [width |-> Tok(0, "mm")],
                [width |-> Tok(300, "mm")], [width |-> Tok(50, "%")],
                [width |-> Tok(150, "%")] },
        a \in { NoAttrs } \cup
              { [align |-> Word(x)] : x \in {"left", "start", "center", "right", "end"} },
        inferred \in {0, Mm(50), Mm(300)} }

InitFlowChild ==
    /\ doc \in FlowChildInputs
    /\ phase = "flow"
    /\ todo = {}
    /\ dfsStack = <<>>
    /\ visiting = {}
    /\ resolved = NoStyles
    /\ collector = newPageCollector(0, 0, Margin(0, 0, 0, 0))
    /\ stack = <<>>
    /\ stmts = 0
    /\ last = NoOp
    /\ result = doc.parent
    /\ err = NoErr

\* The child context of one flow statement.
MakeFlowChild ==
    /\ phase = "flow"
    /\ phase' = "child"
    /\ result' = FlowChild(doc.parent, doc.attrs, doc.inferred, 1)
    /\ UNCHANGED <<doc, todo, dfsStack, visiting, resolved, collector, stack, stmts,
                   last, err>>

SpecFlow == InitFlowChild /\ [][MakeFlowChild]_vars

\* --------------------------------------------------------------- properties

LastOf(seq) == seq[Len(seq)]
Range(seq) == {seq[i] : i \in 1..Len(seq)}
NewestPage == collector.accs[Len(collector.accs)]

\* The content area as the specification words it.
AreaTop == Max(collector.margin.Top, collector.header.Height)
AreaBottom == collector.height - Max(collector.margin.Bottom, collector.footer.Height)

\* The handler op has just placed its item (an error ends the walk).
Placed(op) == phase = "body" /\ last.op = op

Failed == phase = "done" /\ result = NoResult /\ err # NoErr

(* C1: a text or image processed in a page-break-eligible context starts a  *)
(* new page if and only if cursorY + height is greater than the bottom of   *)
(* the content area; the item is appended to the newest page then, and to   *)
(* the current page at the current cursor when no break is needed.          *)
C1_BreakIffOverflow ==
    ((Placed("text") \/ Placed("image")) /\ last.eligible) =>
        LET item == IF last.op = "text" THEN LastOf(NewestPage.texts)
                    ELSE LastOf(NewestPage.images)
        IN /\ last.broke <=> (last.cursor0 + last.h > AreaBottom)
           /\ Len(collector.accs) = last.pages0 + (IF last.broke THEN 1 ELSE 0)
           /\ collector.current = Len(collector.accs)
           /\ item.Y = last.y /\ item.Height = last.h
           /\ ~last.broke => item.Y = last.cursor0

C1_Witness ==
    /\ Placed("image") /\ last.eligible /\ last.broke
    /\ Len(collector.accs) = 2
    /\ Len(collector.accs[1].texts) > 0
    /\ Len(collector.accs[2].images) = 1

(* C2: a page break triggered in a context nested in flow containers makes  *)
(* exactly one new page; the root and every ancestor have cursorY = baseY = *)
(* content-area top, the triggering context has that baseY and had that     *)
(* cursor when the item was placed, and the item's Y is the content-area    *)
(* top, max(marginTop, headerHeight).                                       *)
C2_NestedBreakResets ==
    (phase = "body" /\ last.broke) =>
        /\ Len(collector.accs) = last.pages0 + 1
        /\ \A i \in 1..(Depth - 1) :
              stack[i].cursorY = AreaTop /\ stack[i].baseY = AreaTop
        /\ Top.baseY = AreaTop
        /\ Top.cursorY = AreaTop + last.h + blockSpacing
        /\ last.y = AreaTop

C2_Witness ==
    /\ phase = "body" /\ last.broke /\ last.op = "text"
    /\ Depth = 3 /\ stack[2].kind = "flow" /\ stack[3].kind = "flow"
    /\ collector.header.Height > collector.margin.Top

\* Every row follows the one before at the row gap, and every cell text
\* sits one padding below its row.
RowsFrom(t) ==
    /\ Len(t.Rows) > 0 => t.Rows[1].Y = t.Y
    /\ \A i \in 1..(Len(t.Rows) - 1) :
          t.Rows[i + 1].Y = t.Rows[i].Y + t.Rows[i].Height + t.RowGap
    /\ \A i \in 1..Len(t.Rows) : \A j \in 1..Len(t.Rows[i].Cells) :
          t.Rows[i].Cells[j].Text.Y = t.Rows[i].Y + cellPadding

(* C3: a table goes to one page with all the rows of its statement; in an   *)
(* eligible context whose cursorY + table height exceeds the content-area   *)
(* bottom the page break comes first and the table appended is the one      *)
(* built at the new cursor: table.Y, every row.Y and every cell text Y are  *)
(* computed from the content-area top of the new page.                      *)
C3_TableWhole ==
    Placed("table") =>
        LET t == LastOf(NewestPage.tables)
        IN /\ last.broke <=> (last.eligible /\ last.cursor0 + last.h > AreaBottom)
           /\ Len(collector.accs) = last.pages0 + (IF last.broke THEN 1 ELSE 0)
           /\ collector.current = Len(collector.accs)
           /\ Len(t.Rows) = Len(last.in.rows)
           /\ t.Y = IF last.broke THEN AreaTop ELSE last.cursor0
           /\ RowsFrom(t)
           /\ Top.cursorY = t.Y + last.h + blockSpacing

C3_Witness ==
    /\ Placed("table") /\ last.broke
    /\ Depth = 2
    /\ Len(LastOf(NewestPage.tables).Rows) = 2
    /\ LastOf(NewestPage.tables).RowGap > 0
    /\ Len(collector.accs[1].tables) > 0

(* C4: while an absolute container is processed, and when it has been, the  *)
(* parent's cursorY is what it was when the container was entered and the   *)
(* number of pages has not grown, whatever the container holds.             *)
C4_AbsoluteLeavesParent ==
    /\ \A i \in 2..Depth :
          stack[i].kind = "absolute" =>
              /\ stack[i - 1].cursorY = stack[i].enterCursor
              /\ Len(collector.accs) = stack[i].enterPages
    /\ (phase = "body" /\ last.op = "endabsolute") =>
              /\ Top.cursorY = last.cursor0
              /\ Len(collector.accs) = last.pages0

C4_Witness ==
    /\ phase = "body" /\ last.op = "endabsolute"
    /\ Len(collector.accs) = 1
    /\ \E tb \in Range(collector.accs[1].texts) : tb.Height > collector.height

(* C5: a body that overflows the content area once gives exactly 2 pages    *)
(* (one page more for every break), and every page of the Result carries    *)
(* the same header and footer records and the same width, height and        *)
(* margin.                                                                  *)
C5_PagesShareBands ==
    result # NoResult =>
        /\ Len(result.Pages) = 1 + last.breaks
        /\ \A i \in 1..Len(result.Pages) :
              /\ result.Pages[i].Header = collector.header
              /\ result.Pages[i].Footer = collector.footer
              /\ result.Pages[i].Header = result.Pages[1].Header
              /\ result.Pages[i].Footer = result.Pages[1].Footer
              /\ result.Pages[i].Width = result.Pages[1].Width
              /\ result.Pages[i].Height = result.Pages[1].Height
              /\ result.Pages[i].Margin = result.Pages[1].Margin

C5_Witness ==
    /\ result # NoResult
    /\ last.breaks = 1 /\ Len(result.Pages) = 2
    /\ Len(result.Pages[2].Header.Texts) > 0
    /\ Len(result.Pages[2].Header.Images) > 0
    /\ Len(result.Pages[2].Footer.Texts) > 0

RECURSIVE LineSumTo(_, _)
LineSumTo(lines, k) ==
    IF k = 0 THEN 0
    ELSE LineSumTo(lines, k - 1) + (lines[k].Height + lines[k].GapBefore)

BodyTexts == UNION { Range(collector.accs[i].texts) : i \in 1..Len(collector.accs) }
CellTexts ==
    UNION { UNION { UNION { {c.Text : c \in Range(r.Cells)} : r \in Range(t.Rows) } :
                    t \in Range(collector.accs[i].tables) } :
            i \in 1..Len(collector.accs) }
BandTexts == Range(collector.header.Texts) \cup Range(collector.footer.Texts)

(* C6: every text box the engine composed (body, table cell, header and     *)
(* footer) has Height = the sum over its lines of Height + GapBefore, and   *)
(* its first line has GapBefore 0, whatever the Typesetter returned.        *)
C6_HeightIsLineSum ==
    \A tb \in BodyTexts \cup CellTexts \cup BandTexts :
        /\ tb.Height = LineSumTo(tb.Lines, Len(tb.Lines))
        /\ Len(tb.Lines) > 0 => tb.Lines[1].GapBefore = 0

C6_Witness ==
    /\ Placed("text")
    /\ \E i \in 1..Len(last.in.ts.lines) :
          last.in.ts.lines[i].Height < 0 /\ last.in.ts.lines[i].GapBefore < 0
    /\ last.in.ts.lines[1].GapBefore > 0
    /\ CellTexts # {}
    /\ Len(collector.header.Texts) > 0 /\ Len(collector.footer.Texts) > 0
    /\ \E tb \in CellTexts : Len(tb.Lines) = 1 /\ tb.Lines[1].Height = tb.FontSize

\* Some header or row of the table statement has no cell with text.
EmptyRow(in) ==
    \E i \in 1..Len(in.rows) :
        \A j \in 1..Len(in.rows[i].cells) : in.rows[i].cells[j].content = <<>>

(* C7: Build returns a Result and no error, or an error and no Result; a    *)
(* flow, absolute, text or table without a block, a document without a page *)
(* section and a table row or header without a non-empty cell end in the    *)
(* error outcome, whatever was laid out before.                             *)
C7_ResultOrError ==
    /\ phase = "done" => \/ result # NoResult /\ err = NoErr
                         \/ result = NoResult /\ err # NoErr
    /\ phase # "done" => result = NoResult /\ err = NoErr
    /\ (last.op \in {"flow", "absolute", "text", "table"} /\ ~last.in.hasBlock) => Failed
    /\ (last.op = "table" /\ last.in.hasBlock /\ EmptyRow(last.in)) => Failed
    /\ (phase = "done" /\ ~doc.hasPage) => Failed

C7_Witness ==
    /\ Failed
    /\ last.op = "table" /\ last.in.hasBlock /\ EmptyRow(last.in)
    /\ Len(collector.accs) >= 2
    /\ Len(collector.accs[1].texts) > 0

\* The properties of style n with its extends chain flattened, the oldest
\* ancestor first.
RECURSIVE Flattened(_, _, _)
Flattened(styles, n, fuel) ==
    IF fuel = 0 \/ n \notin DOMAIN styles THEN NoAttrs
    ELSE IF styles[n].Extends = "" THEN styles[n].Props
    ELSE Overlay(Flattened(styles, styles[n].Extends, fuel - 1), styles[n].Props)

StylesCollected == phase \in {"pages", "body"}

(* C8: after resource collection every style's resolved properties are its  *)
(* parent's resolved properties overlaid with its own (the child wins),     *)
(* along the whole extends chain and whatever the order of the visits;      *)
(* A{size:10pt} and B extends A {color:#000} give B {size:10pt, color:#000}.*)
C8_StylesFlattened ==
    StylesCollected =>
        /\ DOMAIN resolved = DOMAIN doc.styles
        /\ \A n \in DOMAIN resolved :
              /\ resolved[n].Extends = doc.styles[n].Extends
              /\ resolved[n].Props =
                    Flattened(doc.styles, n, Cardinality(DOMAIN doc.styles))
              /\ resolved[n].Props =
                    IF resolved[n].Extends = "" THEN doc.styles[n].Props
                    ELSE Overlay(resolved[resolved[n].Extends].Props, doc.styles[n].Props)
        /\ doc.styles = ExampleStyles =>
              resolved["B"].Props = [size |-> Tok(10, "pt"), color |-> Word("#000")]

C8_Witness ==
    /\ StylesCollected
    /\ DOMAIN resolved = StyleNames
    /\ resolved["C"].Extends = "A" /\ resolved["B"].Extends = "C"
    /\ resolved["B"].Props = [size |-> Tok(12, "pt"), color |-> Word("#000")]

\* The names the extends chain of a style goes through.
StyleParents(styles, names) ==
    {styles[m].Extends : m \in names \cap DOMAIN styles} \ {""}

RECURSIVE StyleAncestors(_, _, _)
StyleAncestors(styles, names, k) ==
    IF k = 0 THEN names
    ELSE StyleAncestors(styles, names \cup StyleParents(styles, names), k - 1)

ChainOf(styles, n) ==
    StyleAncestors(styles, StyleParents(styles, {n}), Cardinality(DOMAIN styles))

\* Some style's chain comes back to the style or names an undeclared style.
Unresolvable(styles) ==
    \E n \in DOMAIN styles :
        \/ n \in ChainOf(styles, n)
        \/ \E m \in ChainOf(styles, n) : m \notin DOMAIN styles

(* C9: style resolution comes to an end on every set of styles, and it      *)
(* ends in an error, Build returning no Result, exactly when the extends    *)
(* chain of some style reaches the style itself or an undeclared style.     *)
C9_ResolutionEndsAndFailsExactly ==
    /\ <>(phase \notin {"start", "resources"})
    /\ [](phase \notin {"start", "resources"} =>
            /\ (Failed /\ err \in {"cycle", "undefined"}) <=> Unresolvable(doc.styles)
            /\ ~Unresolvable(doc.styles) => (phase = "pages" /\ err = NoErr))

C9_Witness ==
    /\ Failed /\ err = "cycle"
    /\ Len(dfsStack) = 3
    /\ resolved = NoStyles

\* The column count as the specification words it (0 when there is neither
\* a positive columns attribute nor a header row).
HeaderRows(rows) == {i \in 1..Len(rows) : rows[i].name = "header"}

FirstHeader(rows) ==
    rows[CHOOSE i \in HeaderRows(rows) : \A j \in HeaderRows(rows) : i <= j]

NonEmptyCells(row) ==
    Cardinality({j \in 1..Len(row.cells) : row.cells[j].content # <<>>})

ColumnCount(in) ==
    IF Attr(in.attrs, "columns").kind = "num" /\ Attr(in.attrs, "columns").num > 0
    THEN Attr(in.attrs, "columns").num
    ELSE IF HeaderRows(in.rows) = {} THEN 0
    ELSE NonEmptyCells(FirstHeader(in.rows))

(* C10: a built table has columnCount column widths, each tableWidth /      *)
(* columnCount, where columnCount is the positive columns attribute or,     *)
(* without one, the number of non-empty cells of the first header row.      *)
C10_EqualColumnWidths ==
    Placed("table") =>
        LET t == LastOf(NewestPage.tables)
        IN /\ Len(t.ColumnWidths) = ColumnCount(last.in)
           /\ \A i \in 1..Len(t.ColumnWidths) :
                 t.ColumnWidths[i] = t.Width \div ColumnCount(last.in)

C10_Witness ==
    /\ Placed("table")
    /\ "columns" \notin DOMAIN last.in.attrs
    /\ last.in.rows[1].name = "row"
    /\ Len(LastOf(NewestPage.tables).ColumnWidths) = 3
    /\ LastOf(NewestPage.tables).Width < Top.width

(* C11: a table with no columns attribute and no header block, made only of *)
(* row blocks that each have a non-empty cell, builds, and has as many      *)
(* equal column widths as its first row has non-empty cells.                *)
C11_RowOnlyTableBuilds ==
    ( /\ last.op = "table" /\ last.in.hasBlock
      /\ "columns" \notin DOMAIN last.in.attrs
      /\ HeaderRows(last.in.rows) = {}
      /\ Len(last.in.rows) > 0
      /\ \A i \in 1..Len(last.in.rows) : NonEmptyCells(last.in.rows[i]) > 0 )
    => /\ err = NoErr
       /\ phase = "body" =>
            LET t == LastOf(NewestPage.tables)
                k == NonEmptyCells(last.in.rows[1])
            IN /\ Len(t.ColumnWidths) = k
               /\ \A i \in 1..k : t.ColumnWidths[i] = t.Width \div k

\* The attributes a text statement is written with: `text styleRef? attrs`,
\* the style name being a leading word that is not an attribute key.
TextAttrKeys == {"font", "size", "color", "line-height", "align", "max-width", "wrap"}

WrittenAttrs(args) ==
    IF Len(args) > 0 /\ args[1].kind = "word" /\ args[1].word \notin TextAttrKeys
    THEN ArgPairs(args, 2)
    ELSE ArgPairs(args, 1)

AlignNamed(w) ==
    CASE w = "start" -> "left"
      [] w = "end" -> "right"
      [] OTHER -> w

(* C12: a text written with an align attribute of left, center, right,      *)
(* start or end, after a style name or without one, gets a TextBox whose    *)
(* Align is that alignment (start as left, end as right), whatever the      *)
(* enclosing flow declares.                                                 *)
C12_ExplicitAlignWins ==
    ( /\ Placed("text")
      /\ AttrWord(WrittenAttrs(last.in.args), "align")
            \in {"left", "center", "right", "start", "end"} )
    => LastOf(NewestPage.texts).Align
          = AlignNamed(AttrWord(WrittenAttrs(last.in.args), "align"))

\* What a container on the stack declares for key ("" when nothing).
Declared(frame, key) == AttrWord(ArgPairs(frame.args, 1), key)

\* The style name a text statement is written with ("" when none).
WrittenStyle(args) ==
    IF Len(args) > 0 /\ args[1].kind = "word" /\ args[1].word \notin TextAttrKeys
    THEN args[1].word
    ELSE ""

\* Whether the text sets key itself, inline or through its style.
TextSets(args, key) ==
    \/ key \in DOMAIN WrittenAttrs(args)
    \/ /\ WrittenStyle(args) \in DOMAIN resolved
       /\ key \in DOMAIN resolved[WrittenStyle(args)].Props

(* C13: a text with no align of its own, inline or from its style, placed   *)
(* inside a flow that declares align center has Align center, also when     *)
(* flows that declare no align lie between that flow and the text.          *)
C13_InheritsFlowAlign ==
    ( /\ Placed("text")
      /\ ~TextSets(last.in.args, "align")
      /\ \E i \in 2..Depth :
            /\ stack[i].kind = "flow"
            /\ Declared(stack[i], "align") = "center"
            /\ \A j \in (i + 1)..Depth :
                  stack[j].kind = "flow" /\ Declared(stack[j], "align") = "" )
    => LastOf(NewestPage.texts).Align = "center"

\* The flows around the text that set a wrap policy, and the policy the
\* text is to be laid out with.
WrapSetters == {i \in 1..Depth : stack[i].kind = "flow" /\ Declared(stack[i], "wrap") # ""}

WrapExpected(args) ==
    IF TextSets(args, "wrap")
    THEN normalizeWrap(AttrWord(mergeStyleAttributes(WrittenStyle(args),
                                                     WrittenAttrs(args), resolved), "wrap"))
    ELSE IF WrapSetters = {} THEN "anywhere"
    ELSE normalizeWrap(Declared(stack[CHOOSE i \in WrapSetters :
                                         \A j \in WrapSetters : j <= i], "wrap"))

\* Renderer.LayoutLines reads an empty policy name as anywhere.
PolicyInEffect(wrap) == IF wrap = "" THEN "anywhere" ELSE wrap

(* C14: the wrap policy a body text is laid out with is its own wrap        *)
(* attribute when it sets one, otherwise that of the nearest enclosing      *)
(* container that sets one, otherwise anywhere, under every nesting of flow *)
(* and absolute containers.                                                 *)
C14_WrapInherited ==
    Placed("text") =>
        PolicyInEffect(LastOf(NewestPage.texts).Wrap) = WrapExpected(last.in.args)

\* All the text boxes laid out on the pages so far.
RECURSIVE TextsOf(_)
TextsOf(accs) ==
    IF accs = <<>> THEN <<>> ELSE accs[1].texts \o TextsOf(Tail(accs))

(* C16: a page whose body is one flow holding the text "Hello,              *)
(* ${user.name}!" gives exactly one text box; its Content is "Hello,        *)
(* Papyrus!" with the data {"user": {"name": "Papyrus"}} and the text as    *)
(* written with nil data.  The Result carries the text boxes of the pages   *)
(* as they were laid out.                                                   *)
C16_HelloPapyrus ==
    /\ ( /\ Placed("text") /\ stmts = 2 /\ Depth = 2 /\ Top.kind = "flow"
         /\ last.in.args = <<>> /\ last.in.content = HelloText )
       => /\ Len(TextsOf(collector.accs)) = 1
          /\ doc.data = UserData => TextsOf(collector.accs)[1].Content = "Hello, Papyrus!"
          /\ doc.data = NilV => TextsOf(collector.accs)[1].Content = "Hello, ${user.name}!"
    /\ (phase = "done" /\ err = NoErr)
       => /\ ~result.nil
          /\ Len(result.Pages) = Len(collector.accs)
          /\ \A i \in 1..Len(result.Pages) : result.Pages[i].Texts = collector.accs[i].texts

C16_Witness ==
    /\ Placed("text") /\ stmts = 2 /\ Depth = 2 /\ Top.kind = "flow"
    /\ last.in.args = <<>> /\ last.in.content = HelloText
    /\ doc.data = UserData
    /\ LastOf(NewestPage.texts).Content = "Hello, Papyrus!"

\* The index texts that are integers, with their values.
IntLiteral == (<<"0">> :> 0) @@ (<<"1">> :> 1) @@ (<<"5">> :> 5) @@ (<<"-", "1">> :> (0 - 1))

\* What a path stands for in the data: a key needs a map that has it, an
\* index an array and an integer within its bounds.
RECURSIVE Lookup(_, _)
Lookup(data, steps) ==
    IF steps = <<>> THEN Found(data)
    ELSE IF steps[1].kind = "key"
    THEN IF data.t = "map" /\ steps[1].key \in DOMAIN data.m
         THEN Lookup(data.m[steps[1].key], Tail(steps))
         ELSE NotFound
    ELSE IF /\ steps[1].idx \in DOMAIN IntLiteral
            /\ data.t = "arr"
            /\ IntLiteral[steps[1].idx] >= 0
            /\ IntLiteral[steps[1].idx] < Len(data.a)
         THEN Lookup(data.a[IntLiteral[steps[1].idx] + 1], Tail(steps))
         ELSE NotFound

\* What is to stand in the place of a placeholder.
Bound(steps, pad, data) ==
    IF Lookup(data, steps).ok THEN <<Sprint(Lookup(data, steps).val)>>
    ELSE Placeholder(steps, pad)

(* C15: with data that is not nil, a placeholder whose path does not        *)
(* resolve (a key that is absent or applied to a non-map, an index applied  *)
(* to a non-array, out of bounds or not an integer) is in the output as     *)
(* written, the text outside the placeholders is unchanged, the other       *)
(* placeholder of the text is replaced by its value, and no error is        *)
(* raised.                                                                  *)
C15_UnresolvedKeptVerbatim ==
    phase = "interpolated" =>
        /\ Join(result) = Join(doc.lead \o Bound(doc.first, doc.pad, doc.data)
                               \o <<",", " ">> \o Bound(doc.second, <<>>, doc.data)
                               \o <<"!">>)
        /\ err = NoErr

C15_Witness ==
    /\ phase = "interpolated"
    /\ doc.first = <<KeyStep("name"), IdxStep(<<"5">>)>>
    /\ doc.pad = <<" ">>
    /\ Lookup(doc.data, <<KeyStep("name")>>).ok
    /\ ~Lookup(doc.data, doc.first).ok
    /\ Lookup(doc.data, doc.second).ok
    /\ Join(result) = "}$${ name[5] }, Papyrus!"

\* A length in the units of the model (1e-6 mm).
Millimetres(v) ==
    CASE v.unit = "cm" -> v.num * 10 * 1000000
      [] v.unit = "in" -> v.num * 25400000
      [] v.unit = "pt" -> v.num * 352777
      [] OTHER -> v.num * 1000000

(* C17: the margin read from the values after the margin keyword: one value *)
(* for all four sides; two for top and bottom, then left and right; three   *)
(* for top, right and bottom with left 0; four or more for top, right,      *)
(* bottom and left, the extras ignored; each value in millimetres, and      *)
(* nothing after the first token that is not a number is read.              *)
C17_MarginShorthand ==
    (phase = "margin" /\ Len(doc.values) >= 1) =>
        LET v == [i \in 1..Len(doc.values) |-> Millimetres(doc.values[i])]
        IN CASE Len(v) = 1 ->
                  result = [Top |-> v[1], Right |-> v[1], Bottom |-> v[1], Left |-> v[1]]
             [] Len(v) = 2 ->
                  result = [Top |-> v[1], Right |-> v[2], Bottom |-> v[1], Left |-> v[2]]
             [] Len(v) = 3 ->
                  result = [Top |-> v[1], Right |-> v[2], Bottom |-> v[3], Left |-> 0]
             [] OTHER ->
                  result = [Top |-> v[1], Right |-> v[2], Bottom |-> v[3], Left |-> v[4]]

C17_Witness ==
    /\ phase = "margin"
    /\ doc.values = <<Tok(2, "cm"), Tok(12, "pt"), Tok(1, "in")>>
    /\ doc.after # <<>>
    /\ result = [Top |-> 20000000, Right |-> 4233324, Bottom |-> 25400000, Left |-> 0]

\* The contents of the lines one after the other, and the characters of a
\* content that are laid out (all but the newlines).
RECURSIVE LinesText(_)
LinesText(lines) ==
    IF lines = <<>> THEN <<>> ELSE lines[1].Content \o LinesText(Tail(lines))

LaidOut(content) == SelectSeq(content, LAMBDA c : c \notin {"\n", "\r"})

\* How many characters the first n of a sequence of pieces hold.
RECURSIVE CharsIn(_, _)
CharsIn(pieces, n) ==
    IF n = 0 THEN 0 ELSE Len(pieces[n]) + CharsIn(pieces, n - 1)

\* The words and runs of blanks of a content, in order.
WordsOf(content) == SelectSeq(tokenizeContent(content), LAMBDA t : t # <<"\n">>)

\* The places in the laid out text where one line ends and the next begins.
LineEnds(lines) ==
    { CharsIn([i \in 1..Len(lines) |-> lines[i].Content], n) : n \in 1..Len(lines) }

(* C18: under anywhere, when no single character is wider than the limit,   *)
(* no line is wider than the limit; nothing of the content is lost, a word  *)
(* or run of blanks that fits the limit is never split, so that breaks fall *)
(* between words, and only a word wider than the limit is split inside.     *)
C18_AnywhereWithinLimit ==
    ( /\ phase = "lines" /\ doc.wrap = "anywhere"
      /\ \A i \in 1..Len(doc.content) : CharWidth[doc.content[i]] <= WrapLimit(doc.width) )
    => /\ \A i \in 1..Len(result) :
             /\ result[i].Width <= WrapLimit(doc.width)
             /\ result[i].Width = TextWidth(result[i].Content)
       /\ LinesText(result) = LaidOut(doc.content)
       /\ \A k \in 1..Len(WordsOf(doc.content)) :
             TextWidth(WordsOf(doc.content)[k]) <= WrapLimit(doc.width)
             => \A e \in LineEnds(result) :
                   ~( /\ CharsIn(WordsOf(doc.content), k - 1) < e
                      /\ e < CharsIn(WordsOf(doc.content), k) )

C18_Witness ==
    /\ phase = "lines" /\ doc.wrap = "anywhere" /\ doc.width = 3
    /\ doc.content = <<"i", " ", "a", "a", "i">>
    /\ Len(result) = 3
    /\ result[1].Content = <<"i", " ">>
    /\ result[2].Content = <<"a">>
    /\ result[3].Content = <<"a", "i">>

\* The lines of a break-word result that neither an explicit newline ended
\* nor are the last.
CutByWidth == { i \in 1..(Len(result) - 1) : result[i].by = "width" }

(* C19 as stated: under break-word, every returned line is at least as wide *)
(* as the width limit, except a line that an explicit newline ended and the *)
(* last line.                                                                *)
C19_NeverShorterThanLimit ==
    (phase = "lines" /\ doc.wrap = "break-word")
    => \A i \in CutByWidth : result[i].Width >= WrapLimit(doc.width)

(* C19 amended: under break-word, every returned line, except a line that   *)
(* an explicit newline ended and the last line, is full: it is at least as  *)
(* wide as the width limit, or the character that follows it in the content *)
(* and opens the next line would make it wider than the limit. The lines   *)
(* hold the content without its newlines, blanks included.                  *)
C19_BreakWordFillsLines ==
    (phase = "lines" /\ doc.wrap = "break-word")
    => /\ \A i \in CutByWidth :
             \/ result[i].Width >= WrapLimit(doc.width)
             \/ /\ result[i + 1].Content # <<>>
                /\ result[i].Width + CharWidth[result[i + 1].Content[1]]
                      > WrapLimit(doc.width)
       /\ \A i \in 1..Len(result) : result[i].Width = TextWidth(result[i].Content)
       /\ LinesText(result) = LaidOut(doc.content)

C19_Witness ==
    /\ phase = "lines" /\ doc.wrap = "break-word" /\ doc.width = 3
    /\ doc.content = <<"a", "a", "\n", "i", " ">>
    /\ Len(result) = 3
    /\ CutByWidth = {1}
    /\ result[1].Content = <<"a">> /\ result[1].Width < WrapLimit(doc.width)
    /\ result[2].Content = <<"a">> /\ result[2].by = "newline"
    /\ result[3].Content = <<"i", " ">>

\* The contents of the lines with a newline between one and the next.
RECURSIVE JoinedByNewlines(_)
JoinedByNewlines(lines) ==
    IF Len(lines) <= 1 THEN LinesText(lines)
    ELSE lines[1].Content \o <<"\n">> \o JoinedByNewlines(Tail(lines))

Newlines(content) == Len(SelectSeq(content, LAMBDA c : c = "\n"))

(* C20: under nowrap, the returned lines are exactly the segments of the    *)
(* content between explicit newlines, in order: k newlines give k+1 lines,  *)
(* no line holds a newline, and the lines joined by newlines are the        *)
(* content, for every width limit, one narrower than a character included.  *)
C20_NoWrapSplitsAtNewlinesOnly ==
    (phase = "lines" /\ doc.wrap = "nowrap")
    => /\ Len(result) = Newlines(doc.content) + 1
       /\ \A i \in 1..Len(result) :
             /\ Newlines(result[i].Content) = 0
             /\ result[i].Width = TextWidth(result[i].Content)
       /\ JoinedByNewlines(result) = doc.content

C20_Witness ==
    /\ phase = "lines" /\ doc.wrap = "nowrap" /\ doc.width = 1
    /\ doc.content = <<"a", " ", "a", "\n", "i">>
    /\ Len(result) = 2
    /\ result[1].Content = <<"a", " ", "a">> /\ result[1].Width > WrapLimit(doc.width)
    /\ result[2].Content = <<"i">>

\* The n-th segment of a content between its explicit newlines.
SegmentPlaces(content, n) ==
    { p \in 1..Len(content) :
        /\ content[p] # "\n"
        /\ Cardinality({ j \in 1..(p - 1) : content[j] = "\n" }) = n - 1 }

Segment(content, n) ==
    [ k \in 1..Cardinality(SegmentPlaces(content, n)) |->
        content[CHOOSE p \in SegmentPlaces(content, n) :
                   Cardinality({ q \in SegmentPlaces(content, n) : q < p }) = k - 1] ]

\* No segment of the content is wider than the limit.
NeverForcedToWrap ==
    \A n \in 1..(Newlines(doc.content) + 1) :
        TextWidth(Segment(doc.content, n)) <= WrapLimit(doc.width)

(* C21: for each of the three wrap policies every explicit newline is a     *)
(* hard line break: when no segment between newlines is wider than the      *)
(* limit, a content with k newlines gives exactly k+1 lines, the n-th line  *)
(* being the n-th segment, so that two newlines in a row give an empty line.*)
C21_NewlinesAreHardBreaks ==
    (phase = "lines" /\ NeverForcedToWrap)
    => /\ Len(result) = Newlines(doc.content) + 1
       /\ \A n \in 1..Len(result) : result[n].Content = Segment(doc.content, n)

C21_Witness ==
    /\ phase = "lines" /\ doc.wrap = "anywhere" /\ doc.width = 4
    /\ doc.content = <<"a", "i", "\n", "\n", "a">>
    /\ Len(result) = 3
    /\ result[1].Content = <<"a", "i">>
    /\ result[2].Content = <<>>
    /\ result[3].Content = <<"a">>

(* C22: a line whose content fills the width limit exactly and is followed  *)
(* at once by an explicit newline gives no extra empty line: the content A, *)
(* newline, B, with A as wide as the limit and B no wider, gives exactly    *)
(* the two lines A and B.                                                   *)
C22_NoBlankLineAfterFullLine ==
    ( /\ phase = "lines"
      /\ Newlines(doc.content) = 1
      /\ TextWidth(Segment(doc.content, 1)) = WrapLimit(doc.width)
      /\ TextWidth(Segment(doc.content, 2)) <= WrapLimit(doc.width) )
    => /\ Len(result) = 2
       /\ result[1].Content = Segment(doc.content, 1)
       /\ result[1].Width = WrapLimit(doc.width)
       /\ result[2].Content = Segment(doc.content, 2)

C22_Witness ==
    /\ phase = "lines" /\ doc.wrap = "break-word" /\ doc.width = 3
    /\ doc.content = <<"a", "i", "\n", "i", "i">>
    /\ Len(result) = 2
    /\ result[1].Content = <<"a", "i">> /\ result[1].Width = 3
    /\ result[2].Content = <<"i", "i">>

\* What the author wrote for the font size and the line height of a text,
\* where the attribute is absent or gives a positive size.
WrittenFontSize(attrs) ==
    IF Attr(attrs, "size").kind = "empty" THEN [Value |-> 12, Unit |-> "pt"]
    ELSE [Value |-> Attr(attrs, "size").num, Unit |-> Attr(attrs, "size").unit]

WrittenLineHeight(attrs) ==
    IF Attr(attrs, "line-height").kind = "empty" THEN RawFactor(14)
    ELSE IF Attr(attrs, "line-height").unit = "x"
         THEN RawFactor(10 * Attr(attrs, "line-height").num)
    ELSE RawAbsolute(Attr(attrs, "line-height").num, Attr(attrs, "line-height").unit)

Positive(attrs, key) == Attr(attrs, key).kind = "empty" \/ Attr(attrs, key).num > 0

\* A record without its debug field.
WithoutDebug(tb) == [f \in DOMAIN tb \ {"Debug"} |-> tb[f]]

(* C23: the same text composed with Debug.RawUnits enabled and disabled     *)
(* gives results equal in every field except the debug record, which is    *)
(* there only when enabled and then holds the font size as the author wrote *)
(* it (12pt when absent) and the line height as the author wrote it (a      *)
(* factor, 1.4 when absent, or an absolute value and unit).                 *)
C23_RawUnitsOnlyAddDebug ==
    (phase = "composed")
    => /\ result.plain.ok = result.debug.ok
       /\ result.plain.ok
          => /\ "Debug" \notin DOMAIN result.plain.tb
             /\ "Debug" \in DOMAIN result.debug.tb
             /\ WithoutDebug(result.debug.tb) = result.plain.tb
             /\ Positive(doc.attrs, "size")
                => result.debug.tb.Debug.FontSize = WrittenFontSize(doc.attrs)
             /\ Positive(doc.attrs, "line-height")
                => result.debug.tb.Debug.LineHeight = WrittenLineHeight(doc.attrs)

\* A value of 3, 6 or 8 hexadecimal digits after an optional hash sign.
ValidHex(value) ==
    /\ Len(TrimHash(value)) \in {3, 6, 8}
    /\ \A i \in 1..Len(TrimHash(value)) : TrimHash(value)[i] \in DOMAIN HexDigits

(* C24: a color resource whose value is not a valid 3-, 6- or 8-digit       *)
(* hexadecimal string is skipped without failing the build: its name is     *)
(* absent from the color map; a valid 3-digit value is expanded by doubling *)
(* each digit.                                                              *)
C24_InvalidColorSkipped ==
    (phase = "collected" /\ doc.name # "")
    => /\ err = NoErr
       /\ ~ValidHex(doc.value) => doc.name \notin DOMAIN result
       /\ (ValidHex(doc.value) /\ Len(TrimHash(doc.value)) = 3)
          => /\ doc.name \in DOMAIN result
             /\ result[doc.name] =
                   Color(17 * HexDigits[TrimHash(doc.value)[1]],
                         17 * HexDigits[TrimHash(doc.value)[2]],
                         17 * HexDigits[TrimHash(doc.value)[3]])

\* The zero value of LineHeightSpec: a spec nobody set.
UnsetSpec == LineHeightSpec(0, 0, Length(0, ""))

(* C25: LineHeightSpec.Resolve returns the font size converted to the       *)
(* target unit times the factor for a factor spec, the spec's length        *)
(* converted to the target unit for an absolute spec, and the font size     *)
(* times 1.4 for an unset (zero-value) spec.                                *)
C25_ResolveLineHeight ==
    (phase = "resolved")
    => /\ (doc.spec.Kind = LineHeightFactor /\ doc.spec # UnsetSpec)
          => result = (To(doc.fontSize, doc.target) * doc.spec.Tenths) \div 10
       /\ doc.spec.Kind = LineHeightAbsolute
          => result = To(doc.spec.Len, doc.target)
       /\ doc.spec = UnsetSpec
          => result = (To(doc.fontSize, doc.target) * 14) \div 10

\* The names of the fonts a document declares.
DeclaredFonts == { doc.fonts[i].Name : i \in 1..Len(doc.fonts) } \ {""}

(* C26: a document that declares no font gets a default font named Body     *)
(* that points at the bundled fallback; hence the font map is never empty,  *)
(* and the font of a text, whatever font or style name it uses, always      *)
(* resolves to a font of the map without failing the build.                 *)
C26_DefaultFontSynthesized ==
    (phase = "font")
    => /\ DeclaredFonts = {}
          => /\ DOMAIN result.fonts = {"Body"}
             /\ result.fonts["Body"].Name = "Body"
             /\ result.fonts["Body"].Fallback = "embed:Inter/static/Inter-Regular.ttf"
       /\ DeclaredFonts # {} => DOMAIN result.fonts = DeclaredFonts
       /\ DOMAIN result.fonts # {}
       /\ result.ok /\ err = NoErr
       /\ \E n \in DOMAIN result.fonts : result.font = result.fonts[n]

C26_Witness ==
    /\ phase = "font"
    /\ Len(doc.fonts) = 1 /\ DeclaredFonts = {}
    /\ doc.font = "Mono" /\ doc.style = "H1"
    /\ result.ok
    /\ result.font = DefaultFont

(* C27: a numeric length written without a unit is read as points: it is    *)
(* converted to millimetres as the same number followed by pt would be,     *)
(* 0.352777 mm to the point.                                                *)
C27_UnitlessIsPoints ==
    (phase = "length" /\ doc.kind = "num" /\ doc.unit = "")
    => result = doc.num * 352777

\* The step in which a flow container returns to its parent, and the state
\* just after a flow statement made its child context.
FlowReturns == last'.op = "endflow" /\ Len(stack') = Depth - 1
FlowEntered == Placed("flow") /\ last.depth = Depth - 1

(* C28: the child context of a flow starts with baseY and cursorY equal to  *)
(* the parent's cursorY; when the flow has been processed, the parent's     *)
(* cursorY is the child's final cursorY plus the 3mm between blocks if the  *)
(* child's cursor ended below the parent's, and is unchanged otherwise.     *)
C28_FlowAdvancesParent ==
    [][ /\ FlowEntered'
           => /\ stack'[Len(stack')].baseY = stack[Depth].cursorY
              /\ stack'[Len(stack')].cursorY = stack[Depth].cursorY
              /\ SubSeq(stack', 1, Depth) = stack
        /\ FlowReturns
           => /\ stack'[Depth - 1].cursorY =
                    IF stack[Depth].cursorY > stack[Depth - 1].cursorY
                    THEN stack[Depth].cursorY + Mm(3)
                    ELSE stack[Depth - 1].cursorY
              /\ \A n \in 1..(Depth - 2) : stack'[n] = stack[n] ]_vars

\* A flow that placed something has returned, and so has an empty one.
C28_Witness ==
    /\ phase = "body" /\ last.op = "endflow" /\ last.depth = Depth + 1
    /\ Top.cursorY = last.cursor0 + Mm(3)
    /\ last.cursor0 > contentTop(collector)
    /\ last.breaks > 0

\* The width of the parent a flow's child leaves free.
Leftover == doc.parent.width - result.width

(* C29: the child of every flow container has a positive width that is at   *)
(* most the parent's; its horizontal offset is 0 for left or no align, half *)
(* the leftover width for center and all of it for right and end, so that   *)
(* the child's extent lies inside the parent's; an explicit width that is   *)
(* not positive or exceeds the parent's width gives the parent's width.     *)
C29_FlowChildInsideParent ==
    (phase = "child")
    => /\ result.width > 0
       /\ result.width <= doc.parent.width
       /\ result.baseX - doc.parent.baseX =
             CASE AttrWord(doc.attrs, "align") = "center" -> Leftover \div 2
               [] AttrWord(doc.attrs, "align") \in {"right", "end"} -> Leftover
               [] OTHER -> 0
       /\ doc.parent.baseX <= result.baseX
       /\ result.baseX + result.width <= doc.parent.baseX + doc.parent.width
       /\ ( /\ Attr(doc.attrs, "width").kind # "empty"
            /\ \/ parseDimension(Attr(doc.attrs, "width"), doc.parent.width) <= 0
               \/ parseDimension(Attr(doc.attrs, "width"), doc.parent.width)
                     > doc.parent.width )
          => result.width = doc.parent.width

\* The same for the flows whose parent has a positive width.
FlowChildInsideWideParent == doc.parent.width > 0 => C29_FlowChildInsideParent

\* The steps that process a shape command and a command processBlock does
\* not know.
ShapeStep == last'.op \in {"line", "rect", "circle"} /\ stmts' = stmts + 1
SkipStep == last'.op = "skip" /\ stmts' = stmts + 1

\* The list of the current page a shape command appends to.
ShapeList(name) ==
    CASE name = "line" -> "lines" [] name = "rect" -> "rects" [] OTHER -> "circles"

(* C30: a line, rect or circle command, and a command of an unknown name,   *)
(* in any context leave the cursorY of every context and the number of      *)
(* pages as they were; a shape is appended at most to its own list of the   *)
(* page that is current, and an unknown command changes nothing.            *)
C30_ShapesLeaveLayoutAlone ==
    [][ /\ ShapeStep
           => /\ stack' = stack
              /\ Len(collector'.accs) = Len(collector.accs)
              /\ collector'.current = collector.current
              /\ \A p \in 1..Len(collector.accs) : \A list \in DOMAIN collector.accs[p] :
                    \/ collector'.accs[p][list] = collector.accs[p][list]
                    \/ /\ p = collector.current
                       /\ list = ShapeList(last'.op)
                       /\ Len(collector'.accs[p][list]) = Len(collector.accs[p][list]) + 1
                       /\ SubSeq(collector'.accs[p][list], 1, Len(collector.accs[p][list]))
                             = collector.accs[p][list]
              /\ phase' = phase /\ result' = result /\ err' = err
        /\ SkipStep
           => /\ stack' = stack /\ collector' = collector
              /\ phase' = phase /\ result' = result /\ err' = err ]_vars

\* A rect was appended on a second page, from inside a container.
C30_Witness ==
    /\ phase = "body" /\ last.op = "rect" /\ Depth > 1
    /\ Len(collector.accs) = 2 /\ collector.current = 2
    /\ Len(collector.accs[2].rects) = 1
    /\ collector.accs[1].rects = <<>>
    /\ Top.cursorY = last.cursor0

(* C31: in a composed text box, a line after the first for which the        *)
(* Typesetter gave no positive gap has GapBefore = max(lineHeight -         *)
(* textHeight, 0), textHeight being the height of that line as the          *)
(* Typesetter measured it, and a line that came without a positive height   *)
(* has Height = font size.                                                  *)
C31_DefaultGapFromTextHeight ==
    (phase = "composed" /\ result.plain.ok /\ doc.ts.lines # <<>>)
    => \A i \in 1..Len(doc.ts.lines) :
          /\ doc.ts.lines[i].Height <= 0
             => result.plain.tb.Lines[i].Height = result.plain.tb.FontSize
          /\ doc.ts.lines[i].Height > 0
             => result.plain.tb.Lines[i].Height = doc.ts.lines[i].Height
          /\ (i > 1 /\ doc.ts.lines[i].GapBefore <= 0)
             => result.plain.tb.Lines[i].GapBefore =
                   Max(result.plain.tb.LineHeight - result.plain.tb.Lines[i].Height, 0)

\* The tallest text of a row, and the heights of rows added up.
TallestCell(row) ==
    CHOOSE h \in { row.Cells[j].Text.Height : j \in 1..Len(row.Cells) } :
        \A j \in 1..Len(row.Cells) : row.Cells[j].Text.Height <= h

RECURSIVE RowHeights(_)
RowHeights(rows) ==
    IF rows = <<>> THEN 0 ELSE rows[1].Height + RowHeights(Tail(rows))

(* C32: in a built table each row's Height is the tallest text of its cells *)
(* plus twice the cell padding of 1.2mm, the first row's Y is the table's   *)
(* Y, each later row's Y is the previous row's Y plus its Height plus the   *)
(* row gap, and the height the table takes is the sum of the row heights    *)
(* plus one row gap between consecutive rows; the gap is 0 when none is     *)
(* given.                                                                   *)
C32_TableRowsStack ==
    Placed("table") =>
        \E t \in {LastOf(NewestPage.tables)} :
           /\ \A i \in 1..Len(t.Rows) :
                 /\ t.Rows[i].Height = TallestCell(t.Rows[i]) + 2 * 1200000
                 /\ t.Rows[i].Y = IF i = 1 THEN t.Y
                                  ELSE t.Rows[i - 1].Y + t.Rows[i - 1].Height + t.RowGap
           /\ last.h = RowHeights(t.Rows) + (Len(t.Rows) - 1) * t.RowGap
           /\ t.RowGap = IF Attr(last.in.attrs, "row-gap").kind = "empty" THEN 0
                         ELSE Mm(Attr(last.in.attrs, "row-gap").num)

C32_Witness ==
    /\ Placed("table")
    /\ Len(LastOf(NewestPage.tables).Rows) = 2
    /\ LastOf(NewestPage.tables).RowGap = Mm(2)
    /\ LastOf(NewestPage.tables).Rows[1].Height = Mm(62) + 2400000
    /\ LastOf(NewestPage.tables).Rows[2].Height = Mm(5) + 2400000
    /\ last.h = Mm(62) + Mm(5) + 4800000 + Mm(2)

\* The lists of a page, and a list that only grew at its end.
AccLists == {"texts", "images", "tables", "lines", "rects", "circles"}

GrewAtEnd(old, new) ==
    /\ Len(old) <= Len(new)
    /\ \A k \in 1..Len(old) : new[k] = old[k]

(* C33: all through a build the collector holds at least one page and its   *)
(* current index is the last page; a step of the body removes and reorders  *)
(* no page, leaves every page but the last one as it was (a page added      *)
(* before the last one is empty), and only appends to the lists of the      *)
(* last page.                                                               *)
C33_ItemsGoToTheLastPage ==
    [][ /\ phase' \in {"body", "done"}
           => /\ Len(collector'.accs) >= 1
              /\ collector'.current = Len(collector'.accs)
        /\ phase = "body"
           => /\ Len(collector.accs) <= Len(collector'.accs)
              /\ \A i \in 1..Len(collector'.accs) :
                    IF i < Len(collector'.accs)
                    THEN collector'.accs[i] =
                            IF i <= Len(collector.accs) THEN collector.accs[i]
                            ELSE EmptyAcc
                    ELSE \A l \in AccLists :
                            GrewAtEnd(IF i <= Len(collector.accs)
                                      THEN collector.accs[i][l] ELSE <<>>,
                                      collector'.accs[i][l]) ]_vars

C33_Witness ==
    /\ phase = "body"
    /\ last.op \in {"text", "image", "table"}
    /\ last.broke
    /\ Len(collector.accs) = 2
    /\ collector.current = 2
    /\ collector.accs[1].texts # <<>>
    /\ Len(collector.accs[2].texts) + Len(collector.accs[2].images)
          + Len(collector.accs[2].tables) = 1

\* A step that places a text, an image or a table.
PlacesItem == phase' = "body" /\ stmts' = stmts + 1
              /\ last'.op \in {"text", "image", "table"}

\* The item such a step has appended.
PlacedItem(pc, op) ==
    LastOf(pc.accs[Len(pc.accs)][CASE op = "text" -> "texts"
                                   [] op = "image" -> "images"
                                   [] OTHER -> "tables"])

(* C34: a text, image or table placed from a page-break-eligible context    *)
(* and not taller than the content area lies between the top and the bottom *)
(* of the content area; placing one item adds at most one page, only an     *)
(* item of an eligible context adds one, and no other step of the body adds *)
(* a page (so the pages are at most 1 + the eligible items).                *)
C34_ItemsInsideContentArea ==
    [][ /\ PlacesItem
           => /\ Len(collector'.accs) <= Len(collector.accs) + 1
              /\ Len(collector'.accs) > Len(collector.accs) => last'.eligible
              /\ PlacedItem(collector', last'.op).Y = last'.y
              /\ (last'.eligible
                  /\ last'.h <= AreaBottom' - AreaTop')
                 => /\ AreaTop' <= last'.y
                    /\ last'.y + last'.h <= AreaBottom'
        /\ (phase = "body" /\ ~PlacesItem)
           => Len(collector'.accs) = Len(collector.accs) ]_vars

C34_Witness ==
    /\ phase = "body" /\ last.op \in {"text", "image", "table"}
    /\ last.eligible /\ last.broke /\ Depth >= 2
    /\ last.h <= AreaBottom - AreaTop
    /\ 2 * last.h > AreaBottom - AreaTop
    /\ last.y = AreaTop
    /\ Len(collector.accs) = 3

\* What a page of the Result holds of the body.
ItemsOn(page) == Len(page.Texts) + Len(page.Images) + Len(page.Tables)
ShapesOn(page) == Len(page.Lines) + Len(page.Rects) + Len(page.Circles)

(* C35: in a Result whose pages hold a text, image or table at all, every   *)
(* page holds at least one item of the body (shapes counted as well): no    *)
(* page break leaves an empty page behind.                                  *)
C35_NoEmptyPage ==
    (result # NoResult /\ \E i \in 1..Len(result.Pages) : ItemsOn(result.Pages[i]) > 0)
    => \A i \in 1..Len(result.Pages) :
          ItemsOn(result.Pages[i]) + ShapesOn(result.Pages[i]) > 0

(* C36: a text, image or table placed by a chain of flow containers (an     *)
(* eligible context) without a page break starts at least 3mm below the end *)
(* Y + height of every item such chains have put on the same page before,   *)
(* whatever flows were entered and left and whatever pages were broken in   *)
(* between.                                                                 *)
C36_FlowItemsDoNotOverlap ==
    [][ (PlacesItem /\ last'.eligible /\ ~last'.broke /\ last.floor >= 0)
        => /\ PlacedItem(collector', last'.op).Y >= last.floor + Mm(3)
           /\ Len(collector'.accs) = Len(collector.accs) ]_vars

C36_Witness ==
    /\ phase = "body" /\ last.op \in {"text", "image", "table"}
    /\ last.eligible /\ ~last.broke
    /\ Depth = 2 /\ Top.kind = "flow"
    /\ Len(NewestPage.texts) = 1 /\ Len(NewestPage.images) = 1
    /\ last.h > 0
    /\ last.floor = last.y + last.h

(* C37: in a built table, cell i (from 0) of every row has its text at      *)
(* X = table.X + i * columnWidth + the cell padding of 1.2mm, columnWidth   *)
(* being the table's final column width, and no row has more cells than the *)
(* table has columns.                                                       *)
C37_RowsOnColumnGrid ==
    Placed("table") =>
        \E t \in {LastOf(NewestPage.tables)} :
           \A r \in 1..Len(t.Rows) :
              /\ Len(t.Rows[r].Cells) <= Len(t.ColumnWidths)
              /\ \A j \in 1..Len(t.Rows[r].Cells) :
                    t.Rows[r].Cells[j].Text.X =
                       t.X + (j - 1) * t.ColumnWidths[1] + 1200000

\* The page section that comes first in the document as written.
PageSectionsOf(d) == {i \in 1..Len(Sections(d)) : Sections(d)[i].hasPage}

FirstWritten(d) ==
    Sections(d)[CHOOSE i \in PageSectionsOf(d) : \A j \in PageSectionsOf(d) : i <= j]

\* The header or footer band a page section gives on a page of its size.
BandOf(p, def, kind) ==
    IF def.present
    THEN buildHeaderFooter(def, resolvePageSize(p.size, p.params).width,
                           resolvePageSize(p.size, p.params).height,
                           resolveMargin(p.params), kind)
    ELSE [ok |-> TRUE, hf |-> NoHeaderFooter]

(* C38: the build reads the first page section only: the set-up of the      *)
(* pages takes the page size, the margins and the header and footer of the  *)
(* first page section, whatever page sections follow it, and fails only for *)
(* a defect of that section (unknown size, no block, a band that cannot be  *)
(* typeset); the walk of the body changes none of them, and every page of   *)
(* the Result carries them.                                                 *)
C38_OnlyFirstPageSection ==
    [][ PageSectionsOf(doc) # {} =>
        \E p \in {FirstWritten(doc)} :
           /\ (phase = "pages" /\ phase' = "body")
              => /\ collector'.width = resolvePageSize(p.size, p.params).width
                 /\ collector'.height = resolvePageSize(p.size, p.params).height
                 /\ collector'.margin = resolveMargin(p.params)
                 /\ collector'.header = BandOf(p, p.header, "header").hf
                 /\ collector'.footer = BandOf(p, p.footer, "footer").hf
           /\ (phase = "pages" /\ phase' = "done")
              => \/ ~resolvePageSize(p.size, p.params).ok
                 \/ ~p.hasBlock
                 \/ ~BandOf(p, p.header, "header").ok
                 \/ ~BandOf(p, p.footer, "footer").ok
           /\ phase = "body"
              => /\ collector'.width = collector.width
                 /\ collector'.height = collector.height
                 /\ collector'.margin = collector.margin
                 /\ collector'.header = collector.header
                 /\ collector'.footer = collector.footer
           /\ (phase = "body" /\ result' # NoResult)
              => \A i \in 1..Len(result'.Pages) :
                    /\ result'.Pages[i].Width = collector.width
                    /\ result'.Pages[i].Height = collector.height
                    /\ result'.Pages[i].Margin = collector.margin
                    /\ result'.Pages[i].Header = collector.header
                    /\ result'.Pages[i].Footer = collector.footer ]_vars

C38_Witness ==
    /\ result # NoResult
    /\ Len(doc.later) = 2
    /\ doc.later[2].hasPage /\ ~doc.later[2].hasBlock /\ doc.later[2].size = "B5"
    /\ Len(result.Pages) = 2
    /\ Len(result.Pages[2].Texts) > 0
    /\ Len(result.Pages[2].Header.Texts) > 0

\* A content without the characters of a set.
Without(content, removed) == SelectSeq(content, LAMBDA c : c \notin removed)

RECURSIVE Concatenated(_, _)
Concatenated(lines, n) ==
    IF n = 0 THEN <<>> ELSE Concatenated(lines, n - 1) \o lines[n].Content

(* C39: for every wrap policy and width limit the contents of the returned  *)
(* lines, concatenated in order, are the content without its newlines and,  *)
(* outside nowrap, without its carriage returns: no character is dropped,   *)
(* duplicated or moved.                                                     *)
C39_WrapKeepsCharacters ==
    phase = "lines" =>
        Concatenated(result, Len(result)) =
            Without(doc.content, IF doc.wrap = "nowrap" THEN {"\n"} ELSE {"\n", "\r"})

C39_Witness ==
    /\ phase = "lines" /\ doc.wrap = "normal" /\ doc.width = 1
    /\ doc.content = <<"a", "\r", " ", "\n">>
    /\ Len(result) = 3
    /\ result[1].Content = <<"a">> /\ result[2].Content = <<" ">>
    /\ result[3].Content = <<>>

====
